---------------------------- MODULE Spec2Model ----------------------------
(***************************************************************************)
(* A model of src/settings/plugins/ifcfg-rh/shvar.c: the shell-variable    *)
(* file store of NetworkManager's ifcfg-rh plugin.                         *)
(*                                                                         *)
(* A C string is a sequence of bytes 1..255 (the terminating NUL is not    *)
(* stored; reading the position one past the end yields 0).  an optional     *)
(* string (one that may be NULL) is a record, see NullStr and Some.         *)
(***************************************************************************)
EXTENDS Integers, Sequences, FiniteSets, TLC

(***************************************************************************)
(* Bounds of the model.                                                    *)
(***************************************************************************)
\* longest byte string handed to the escape codec
MaxLen == 3
\* most physical lines of an initial file
MaxLines == 2
\* the longest text handed to svUnescape as it is
MaxText == 4
\* the most bytes behind the escape of a $'...' text handed to svUnescape
MaxTail == 3
\* the most bytes behind the opening quote of a double-quoted text
MaxQuoted == 5
\* the longest physical line handed to line_new_parse by itself
MaxLine == 4

(***************************************************************************)
(* Bytes and C strings.                                                    *)
(***************************************************************************)
\* the character literals the source compares against
ASCII ==
    [nul |-> 0, bel |-> 7, bs |-> 8, tab |-> 9, nl |-> 10, vt |-> 11,
     ff |-> 12, cr |-> 13, esc |-> 27, space |-> 32, dquote |-> 34,
     hash |-> 35, dollar |-> 36, amp |-> 38, squote |-> 39, lparen |-> 40,
     rparen |-> 41, semi |-> 59, lt |-> 60, eq |-> 61, gt |-> 62,
     qmark |-> 63, bslash |-> 92, under |-> 95, btick |-> 96, pipe |-> 124,
     tilde |-> 126, del |-> 127]

\* value[i] of a NUL-terminated C string, i counted from 0
At(value, i) == IF i < Len(value) THEN value[i + 1] ELSE 0

\* the first n bytes of value (g_strndup (value, n))
Take(value, n) == SubSeq(value, 1, n)

\* the bytes of value from offset i on (&value[i])
Drop(value, i) == SubSeq(value, i + 1, Len(value))

RECURSIVE NulPos(_, _)
NulPos(buf, i) ==
    IF i > Len(buf) THEN i
    ELSE IF buf[i] = 0 THEN i
    ELSE NulPos(buf, i + 1)

\* the C string a GString buffer is read as: it ends at the first NUL byte
CStr(buf) == SubSeq(buf, 1, NulPos(buf, 1) - 1)

g_ascii_isspace(c) == c \in {32, 9, 10, 11, 12, 13}
g_ascii_isdigit(c) == c >= 48 /\ c <= 57
g_ascii_isalpha(c) == (c >= 65 /\ c <= 90) \/ (c >= 97 /\ c <= 122)
g_ascii_isalnum(c) == g_ascii_isalpha(c) \/ g_ascii_isdigit(c)
g_ascii_isxdigit(c) ==
    g_ascii_isdigit(c) \/ (c >= 65 /\ c <= 70) \/ (c >= 97 /\ c <= 102)
g_ascii_tolower(c) == IF c >= 65 /\ c <= 90 THEN c + 32 ELSE c

\* the value of a byte read through a plain `char`: the build decides whether
\* plain char is signed (x86) or unsigned (ARM)
CharVal(c, isSigned) == IF isSigned /\ c >= 128 THEN c - 256 ELSE c

(***************************************************************************)
(* The escape codec.                                                       *)
(***************************************************************************)
\* a variant of _char_req_escape with the quote and the tilde of the old set
EscapeWithQuoteAndTilde(c) ==
    c \in {ASCII.dquote, ASCII.bslash, ASCII.squote, ASCII.dollar, ASCII.btick,
           ASCII.tilde}

_char_req_escape(c) == c \in {ASCII.dquote, ASCII.bslash, ASCII.dollar, ASCII.btick}

_char_req_escape_old(c) ==
    c \in {ASCII.dquote, ASCII.bslash, ASCII.squote, ASCII.dollar, ASCII.btick,
           ASCII.tilde}

\* a variant of _char_req_quotes that leaves the space out
QuotesButForSpace(c) ==
    c \in {ASCII.squote, ASCII.tilde, ASCII.tab, ASCII.pipe,
           ASCII.amp, ASCII.semi, ASCII.lparen, ASCII.rparen, ASCII.lt, ASCII.gt}

_char_req_quotes(c) ==
    c \in {ASCII.space, ASCII.squote, ASCII.tilde, ASCII.tab, ASCII.pipe,
           ASCII.amp, ASCII.semi, ASCII.lparen, ASCII.rparen, ASCII.lt, ASCII.gt}

\* '0' + ((ch >> shift) & 07), ch a plain char promoted to int
OctDigit(c, isSigned, div) == 48 + ((CharVal(c, isSigned) \div div) % 8)

\* the bytes _escape_ansic emits for one source byte
EscapeAnsicByte(c, isSigned) ==
    CASE c = ASCII.bs  -> <<ASCII.bslash, 98>>
      [] c = ASCII.ff  -> <<ASCII.bslash, 102>>
      [] c = ASCII.nl  -> <<ASCII.bslash, 110>>
      [] c = ASCII.cr  -> <<ASCII.bslash, 114>>
      [] c = ASCII.tab -> <<ASCII.bslash, 116>>
      [] c = ASCII.vt  -> <<ASCII.bslash, 118>>
      [] c \in {ASCII.bslash, ASCII.dquote, ASCII.squote} -> <<ASCII.bslash, c>>
      [] OTHER ->
            IF CharVal(c, isSigned) < 32 \/ CharVal(c, isSigned) >= 127
            THEN <<ASCII.bslash, OctDigit(c, isSigned, 64),
                   OctDigit(c, isSigned, 8), OctDigit(c, isSigned, 1)>>
            ELSE <<c>>

RECURSIVE EscapeAnsicFrom(_, _, _)
EscapeAnsicFrom(source, p, isSigned) ==
    IF p >= Len(source) THEN <<>>
    ELSE EscapeAnsicByte(At(source, p), isSigned)
            \o EscapeAnsicFrom(source, p + 1, isSigned)

_escape_ansic(source, isSigned) ==
    <<ASCII.dollar, ASCII.squote>> \o EscapeAnsicFrom(source, 0, isSigned)
        \o <<ASCII.squote>>

\* the first loop of svEscape: "ansic" as soon as a byte below ' ' is met that
\* needs neither escaping nor quotes, else whether anything was counted
RECURSIVE EscapeScan(_, _, _, _)
EscapeScan(s, i, found, isSigned) ==
    IF i >= Len(s) THEN (IF found THEN "quote" ELSE "plain")
    ELSE IF _char_req_escape(At(s, i)) THEN EscapeScan(s, i + 1, TRUE, isSigned)
    ELSE IF _char_req_quotes(At(s, i)) THEN EscapeScan(s, i + 1, TRUE, isSigned)
    ELSE IF CharVal(At(s, i), isSigned) < 32 THEN "ansic"
    ELSE EscapeScan(s, i + 1, found, isSigned)

RECURSIVE EscapeQuoted(_, _)
EscapeQuoted(s, i) ==
    IF i >= Len(s) THEN <<>>
    ELSE (IF _char_req_escape(At(s, i)) THEN <<ASCII.bslash>> ELSE <<>>)
            \o <<At(s, i)>> \o EscapeQuoted(s, i + 1)

svEscape(s, isSigned) ==
    CASE EscapeScan(s, 0, FALSE, isSigned) = "ansic" -> _escape_ansic(s, isSigned)
      [] EscapeScan(s, 0, FALSE, isSigned) = "plain" -> s
      [] OTHER -> <<ASCII.dquote>> \o EscapeQuoted(s, 0) \o <<ASCII.dquote>>

\* an optional C string: NULL, or a string
NullStr == [nil |-> TRUE, str |-> <<>>]
Some(str) == [nil |-> FALSE, str |-> str]

RECURSIVE LooksLikeOldFrom(_, _)
LooksLikeOldFrom(value, k) ==
    IF At(value, k) = 0 THEN FALSE
    ELSE IF ~_char_req_escape_old(At(value, k)) THEN LooksLikeOldFrom(value, k + 1)
    ELSE IF At(value, k) = ASCII.dquote THEN At(value, k + 1) = 0
    ELSE IF At(value, k) = ASCII.bslash
         THEN (IF ~_char_req_escape_old(At(value, k + 1)) THEN FALSE
               ELSE LooksLikeOldFrom(value, k + 2))
    ELSE FALSE

\* a variant of _looks_like_old_svescaped that looks at the first byte only
LooksLikeOldAtStart(value) == At(value, 0) = ASCII.dquote

_looks_like_old_svescaped(value) ==
    IF At(value, 0) # ASCII.dquote THEN FALSE ELSE LooksLikeOldFrom(value, 1)

_ch_octal_is(c) == c >= 48 /\ c < 56
_ch_octal_get(c) == c - 48
_ch_hex_is(c) == g_ascii_isxdigit(c)
\* ch <= '9' ? ch - '0' : (ch & 0x4F) - 'A' + 10, ch a hex digit: the mask
\* clears the bit that tells a small letter from a capital
_ch_hex_get(c) == IF c <= 57 THEN c - 48 ELSE (IF c >= 97 THEN c - 32 ELSE c) - 65 + 10

\* GString *str, NULL until _gstr_init copies the first i bytes of value
NoGStr == [set |-> FALSE, buf |-> <<>>]
_gstr_init(str, value, i) ==
    IF str.set THEN str ELSE [set |-> TRUE, buf |-> Take(value, i)]
GStrAppend(str, bytes) == [set |-> TRUE, buf |-> str.buf \o bytes]

\* g_string_append_unichar: the UTF-8 form (up to six bytes) of a code point
Utf8Tail(c, n) == [k \in 1..n |-> 128 + ((c \div (64 ^ (n - k))) % 64)]
g_unichar_to_utf8(c) ==
    CASE c < 128      -> <<c>>
      [] c < 2048     -> <<192 + (c \div 64)>> \o Utf8Tail(c, 1)
      [] c < 65536    -> <<224 + (c \div 4096)>> \o Utf8Tail(c, 2)
      [] c < 2097152  -> <<240 + (c \div 262144)>> \o Utf8Tail(c, 3)
      [] c < 67108864 -> <<248 + (c \div 16777216)>> \o Utf8Tail(c, 4)
      [] OTHER        -> <<252 + (c \div 1073741824)>> \o Utf8Tail(c, 5)

\* the run of up to max further digits at value[i..]: <<value read, next i>>
RECURSIVE OctalRun(_, _, _, _)
OctalRun(value, i, v, max) ==
    IF max > 0 /\ _ch_octal_is(At(value, i))
    THEN OctalRun(value, i + 1, (v * 8) + _ch_octal_get(At(value, i)), max - 1)
    ELSE <<v, i>>

RECURSIVE HexRun(_, _, _, _)
HexRun(value, i, v, max) ==
    IF max > 0 /\ _ch_hex_is(At(value, i))
    THEN HexRun(value, i + 1, (v * 16) + _ch_hex_get(At(value, i)), max - 1)
    ELSE <<v, i>>

UnescFail == [ok |-> FALSE, i |-> 0, str |-> NoGStr]

\* a variant of AnsicLetter where \? is DEL
AnsicLetterDel ==
    [c \in {97, 98, 101, 69, 102, 110, 114, 116, 118, 63, 34, 92, 39} |->
        CASE c = 97  -> ASCII.bel
          [] c = 98  -> ASCII.bs
          [] c = 101 -> ASCII.esc
          [] c = 69  -> ASCII.esc
          [] c = 102 -> ASCII.ff
          [] c = 110 -> ASCII.nl
          [] c = 114 -> ASCII.cr
          [] c = 116 -> ASCII.tab
          [] c = 118 -> ASCII.vt
          [] c = 63  -> 127
          [] OTHER   -> c]

\* the table of single-letter escapes inside $'...'
AnsicLetter ==
    [c \in {97, 98, 101, 69, 102, 110, 114, 116, 118, 63, 34, 92, 39} |->
        CASE c = 97  -> ASCII.bel
          [] c = 98  -> ASCII.bs
          [] c = 101 -> ASCII.esc
          [] c = 69  -> ASCII.esc
          [] c = 102 -> ASCII.ff
          [] c = 110 -> ASCII.nl
          [] c = 114 -> ASCII.cr
          [] c = 116 -> ASCII.tab
          [] c = 118 -> ASCII.vt
          [] c = 63  -> ASCII.qmark
          [] OTHER   -> c]

\* the loop over an ANSI-C quoted run, entered behind $'
RECURSIVE UnescAnsic(_, _, _)
UnescAnsic(value, i, str) ==
    LET c == At(value, i)
        d == At(value, i + 1)
    IN  IF c = ASCII.squote THEN [ok |-> TRUE, i |-> i + 1, str |-> str]
        ELSE IF c = 0 THEN UnescFail
        ELSE IF c # ASCII.bslash THEN UnescAnsic(value, i + 1, GStrAppend(str, <<c>>))
        ELSE IF d = 0 THEN UnescFail
        ELSE IF d \in DOMAIN AnsicLetter
             THEN UnescAnsic(value, i + 2, GStrAppend(str, <<AnsicLetter[d]>>))
        ELSE IF _ch_octal_is(d)
             THEN LET r == OctalRun(value, i + 2, _ch_octal_get(d), 2)
                  IN  UnescAnsic(value, r[2], GStrAppend(str, <<r[1] % 256>>))
        ELSE IF d \in {120, 117, 85}
             THEN IF ~_ch_hex_is(At(value, i + 2))
                  THEN UnescAnsic(value, i + 2, GStrAppend(str, <<ASCII.bslash, d>>))
                  ELSE LET max == IF d = 120 THEN 2 ELSE IF d = 117 THEN 4 ELSE 8
                           r == HexRun(value, i + 3, _ch_hex_get(At(value, i + 2)),
                                       max - 1)
                       IN  UnescAnsic(value, r[2],
                               GStrAppend(str, IF d = 120 THEN <<r[1] % 256>>
                                               ELSE g_unichar_to_utf8(r[1])))
        ELSE UnescAnsic(value, i + 2, GStrAppend(str, <<ASCII.bslash, d>>))

\* a variant of UnescDQuote that takes '`' and '$' as they are
RECURSIVE UnescDQuoteExpanding(_, _, _)
UnescDQuoteExpanding(value, i, str) ==
    LET c == At(value, i)
        d == At(value, i + 1)
    IN  IF c = ASCII.dquote THEN [ok |-> TRUE, i |-> i + 1, str |-> str]
        ELSE IF c = 0 THEN UnescFail
        ELSE IF c # ASCII.bslash
             THEN UnescDQuoteExpanding(value, i + 1, GStrAppend(str, <<c>>))
        ELSE IF d = 0 THEN UnescFail
        ELSE IF d \in {ASCII.dollar, ASCII.btick, ASCII.dquote, ASCII.bslash}
             THEN UnescDQuoteExpanding(value, i + 2, GStrAppend(str, <<d>>))
        ELSE UnescDQuoteExpanding(value, i + 2, GStrAppend(str, <<ASCII.bslash, d>>))

\* the loop over a double-quoted run, entered behind the opening quote
RECURSIVE UnescDQuote(_, _, _)
UnescDQuote(value, i, str) ==
    LET c == At(value, i)
        d == At(value, i + 1)
    IN  IF c = ASCII.dquote THEN [ok |-> TRUE, i |-> i + 1, str |-> str]
        ELSE IF c = 0 THEN UnescFail
        ELSE IF c \in {ASCII.btick, ASCII.dollar} THEN UnescFail
        ELSE IF c # ASCII.bslash THEN UnescDQuote(value, i + 1, GStrAppend(str, <<c>>))
        ELSE IF d = 0 THEN UnescFail
        ELSE IF d \in {ASCII.dollar, ASCII.btick, ASCII.dquote, ASCII.bslash}
             THEN UnescDQuote(value, i + 2, GStrAppend(str, <<d>>))
        ELSE IF d \in {ASCII.squote, ASCII.tilde}
             THEN IF _looks_like_old_svescaped(value)
                  THEN UnescDQuote(value, i + 2, GStrAppend(str, <<d>>))
                  ELSE UnescDQuote(value, i + 2, GStrAppend(str, <<ASCII.bslash, d>>))
        ELSE UnescDQuote(value, i + 2, GStrAppend(str, <<ASCII.bslash, d>>))

\* the index of the closing ' of a single-quoted run, or of the NUL
RECURSIVE SQuoteEnd(_, _)
SQuoteEnd(value, j) ==
    IF At(value, j) = 0 \/ At(value, j) = ASCII.squote THEN j
    ELSE SQuoteEnd(value, j + 1)

\* a variant of TrailEnd that skips one ';' also behind the ';' the scan met
RECURSIVE TrailEndOneMore(_, _, _)
TrailEndOneMore(value, j, has_semicolon) ==
    IF g_ascii_isspace(At(value, j)) THEN TrailEndOneMore(value, j + 1, has_semicolon)
    ELSE IF At(value, j) = ASCII.semi /\ (~has_semicolon \/ At(value, j - 1) = ASCII.semi)
         THEN TrailEndOneMore(value, j + 1, TRUE)
    ELSE j

\* where the scan behind a space or ';' stops: spaces and at most one ';'
\* (counting the one the scan started on) are skipped
RECURSIVE TrailEnd(_, _, _)
TrailEnd(value, j, has_semicolon) ==
    IF g_ascii_isspace(At(value, j)) THEN TrailEnd(value, j + 1, has_semicolon)
    ELSE IF ~has_semicolon /\ At(value, j) = ASCII.semi THEN TrailEnd(value, j + 1, TRUE)
    ELSE j

\* the label out_value of svUnescape
UnescOutValue(value, i, str) ==
    IF i = 0 THEN Some(<<>>)
    ELSE IF str.set
         THEN (IF Len(str.buf) = 0 \/ str.buf[1] = 0 THEN Some(<<>>)
               ELSE Some(CStr(str.buf)))
    ELSE IF At(value, i) # 0 THEN Some(Take(value, i))
    ELSE Some(value)

\* a variant of IsShellMeta that counts '$' and '`' in
IsShellMetaOrExpansion(c) ==
    c \in {ASCII.pipe, ASCII.amp, ASCII.lparen, ASCII.rparen, ASCII.lt, ASCII.gt,
           ASCII.dollar, ASCII.btick}

\* the shell metacharacters svUnescape does not take without quoting
IsShellMeta(c) ==
    c \in {ASCII.pipe, ASCII.amp, ASCII.lparen, ASCII.rparen, ASCII.lt, ASCII.gt}

RECURSIVE UnescLoop(_, _, _)
UnescLoop(value, i, str) ==
    LET c == At(value, i)
    IN  IF c = 0 THEN UnescOutValue(value, i, str)
        ELSE IF g_ascii_isspace(c) \/ c = ASCII.semi
             THEN IF At(value, TrailEnd(value, i + 1, c = ASCII.semi))
                        \notin {0, ASCII.hash}
                  THEN NullStr
                  ELSE UnescOutValue(value, i, str)
        ELSE IF c = ASCII.bslash
             THEN IF At(value, i + 1) = 0 THEN NullStr
                  ELSE UnescLoop(value, i + 2,
                           GStrAppend(_gstr_init(str, value, i), <<At(value, i + 1)>>))
        ELSE IF c = ASCII.squote
             THEN LET j == SQuoteEnd(value, i + 1)
                  IN  IF At(value, j) = 0 THEN NullStr
                      ELSE UnescLoop(value, j + 1,
                               GStrAppend(_gstr_init(str, value, i),
                                          SubSeq(value, i + 2, j)))
        ELSE IF c = ASCII.dquote
             THEN LET r == UnescDQuote(value, i + 1, _gstr_init(str, value, i))
                  IN  IF r.ok THEN UnescLoop(value, r.i, r.str) ELSE NullStr
        ELSE IF c = ASCII.dollar /\ At(value, i + 1) = ASCII.squote
             THEN LET r == UnescAnsic(value, i + 2, _gstr_init(str, value, i))
                  IN  IF r.ok THEN UnescLoop(value, r.i, r.str) ELSE NullStr
        ELSE IF IsShellMeta(c) THEN NullStr
        ELSE UnescLoop(value, i + 1,
                 IF str.set THEN GStrAppend(str, <<c>>) ELSE str)

\* svUnescape: NullStr on a syntax error, else the value
svUnescape(value) == UnescLoop(value, 0, NoGStr)

(***************************************************************************)
(* The record model: one shvarLine per physical line.                      *)
(***************************************************************************)
RECURSIVE SkipSpaces(_, _)
SkipSpaces(value, k) ==
    IF g_ascii_isspace(At(value, k)) THEN SkipSpaces(value, k + 1) ELSE k

nm_str_skip_leading_spaces(str) == Drop(str, SkipSpaces(str, 0))

RECURSIVE ShellNameFrom(_, _)
ShellNameFrom(key, i) ==
    IF i >= Len(key) THEN TRUE
    ELSE IF ~g_ascii_isalnum(At(key, i)) /\ At(key, i) # ASCII.under THEN FALSE
    ELSE ShellNameFrom(key, i + 1)

_shell_is_name(key) ==
    IF Len(key) = 0 THEN FALSE
    ELSE IF ~g_ascii_isalpha(At(key, 0)) /\ At(key, 0) # ASCII.under THEN FALSE
    ELSE ShellNameFrom(key, 1)

\* the first offset e >= from that holds no byte of a name (or the length)
RECURSIVE NameEnd(_, _)
NameEnd(value, e) ==
    IF e < Len(value) /\ (g_ascii_isalnum(At(value, e)) \/ At(value, e) = ASCII.under)
    THEN NameEnd(value, e + 1)
    ELSE e

RawLine(value) == [line |-> Some(value), key |-> NullStr, key_with_prefix |-> NullStr]

\* a variant of line_new_parse that takes a digit for the start of a name
LineParseDigitFirst(value) ==
    LET k == SkipSpaces(value, 0)
        e == NameEnd(value, k + 1)
    IN  IF /\ k < Len(value)
           /\ (g_ascii_isalnum(At(value, k)) \/ At(value, k) = ASCII.under)
           /\ e < Len(value)
           /\ At(value, e) = ASCII.eq
        THEN [line |-> Some(Drop(value, e + 1)),
              key |-> Some(SubSeq(value, k + 1, e)),
              key_with_prefix |-> Some(Take(value, e))]
        ELSE RawLine(value)

\* a variant of line_new_parse whose key starts where key_with_prefix does
LineParseKeyUnskipped(value) ==
    LET k == SkipSpaces(value, 0)
        e == NameEnd(value, k + 1)
    IN  IF /\ k < Len(value)
           /\ (g_ascii_isalpha(At(value, k)) \/ At(value, k) = ASCII.under)
           /\ e < Len(value)
           /\ At(value, e) = ASCII.eq
        THEN [line |-> Some(Drop(value, e + 1)),
              key |-> Some(Take(value, e)),
              key_with_prefix |-> Some(Take(value, e))]
        ELSE RawLine(value)

line_new_parse(value) ==
    LET k == SkipSpaces(value, 0)
        e == NameEnd(value, k + 1)
    IN  IF /\ k < Len(value)
           /\ (g_ascii_isalpha(At(value, k)) \/ At(value, k) = ASCII.under)
           /\ e < Len(value)
           /\ At(value, e) = ASCII.eq
        THEN [line |-> Some(Drop(value, e + 1)),
              key |-> Some(SubSeq(value, k + 1, e)),
              key_with_prefix |-> Some(Take(value, e))]
        ELSE RawLine(value)

line_new_build(key, value, isSigned) ==
    [line |-> Some(svEscape(value, isSigned)),
     key |-> Some(key),
     key_with_prefix |-> Some(key)]

\* a variant of line_set that stores the value as it is given, not escaped
line_set_raw(line, value, isSigned) ==
    <<[line EXCEPT !.key_with_prefix = line.key, !.line = Some(value)], TRUE>>

\* line_set: <<the line as it is left, the value returned>>
\* a variant of line_set that leaves key_with_prefix as it was read
line_set_prefixed(line, value, isSigned) ==
    IF ~line.line.nil /\ line.line.str = svEscape(value, isSigned)
    THEN <<line, FALSE>>
    ELSE <<[line EXCEPT !.line = Some(svEscape(value, isSigned))], TRUE>>

line_set(line, value, isSigned) ==
    LET changed == line.key # line.key_with_prefix
        moved == [line EXCEPT !.key_with_prefix = line.key]
        escaped == svEscape(value, isSigned)
    IN  IF ~line.line.nil /\ escaped = line.line.str
        THEN <<moved, changed>>
        ELSE <<[moved EXCEPT !.line = Some(escaped)], TRUE>>

(***************************************************************************)
(* The document: a shvarFile.                                              *)
(***************************************************************************)
svFile_new == [fd |-> -1, lineList |-> <<>>, modified |-> FALSE]

\* the offsets of the '\n' bytes of arena
NewlinesOf(arena) == {i \in 1..Len(arena) : arena[i] = ASCII.nl}

\* the pieces the loop of svOpenFileInternal cuts arena into at every '\n'; a
\* last piece without '\n' counts when it is not empty
RECURSIVE CutLines(_)
CutLines(arena) ==
    IF NewlinesOf(arena) = {}
    THEN (IF Len(arena) > 0 THEN <<arena>> ELSE <<>>)
    ELSE LET q == CHOOSE i \in NewlinesOf(arena) : \A j \in NewlinesOf(arena) : i <= j
         IN  <<Take(arena, q - 1)>> \o CutLines(Drop(arena, q))

\* the lineList svOpenFileInternal builds from the bytes read
SplitLines(arena) ==
    [i \in 1..Len(CutLines(arena)) |-> line_new_parse(CutLines(arena)[i])]

svFileSetModified(s) == [s EXCEPT !.modified = TRUE]

\* the positions of the lines shlist_find matches
FindAll(lineList, key) ==
    {i \in 1..Len(lineList) : ~lineList[i].key.nil /\ lineList[i].key.str = key}

MaxOf(set) == CHOOSE i \in set : \A j \in set : j <= i

\* a variant of RemoveAt that removes nothing
RemoveNone(list, set) == list

RECURSIVE RemoveAt(_, _)
RemoveAt(list, set) ==
    IF Len(list) = 0 THEN <<>>
    ELSE RemoveAt(SubSeq(list, 1, Len(list) - 1), set)
            \o (IF Len(list) \in set THEN <<>> ELSE <<list[Len(list)]>>)

\* a variant of _svGetValue that stops at the first line shlist_find matches
FirstValue(s, key) ==
    LET found == FindAll(s.lineList, key)
        first == CHOOSE i \in found : \A j \in found : i <= j
    IN  IF found # {} /\ ~s.lineList[first].line.nil
        THEN svUnescape(s.lineList[first].line.str)
        ELSE NullStr

_svGetValue(s, key) ==
    LET found == FindAll(s.lineList, key)
    IN  IF found # {} /\ ~s.lineList[MaxOf(found)].line.nil
        THEN svUnescape(s.lineList[MaxOf(found)].line.str)
        ELSE NullStr

svGetValueString(s, key) ==
    LET value == _svGetValue(s, key)
    IN  IF value.nil THEN NullStr
        ELSE IF Len(value.str) = 0 THEN NullStr
        ELSE value

RECURSIVE LowerCase(_)
LowerCase(str) ==
    IF Len(str) = 0 THEN <<>>
    ELSE <<g_ascii_tolower(Head(str))>> \o LowerCase(Tail(str))

\* a variant of svParseBoolean that compares with strcmp
ParseBooleanCased(value, fallback) ==
    IF value.nil THEN fallback
    ELSE IF value.str \in
                {<<121, 101, 115>>, <<116, 114, 117, 101>>, <<116>>, <<121>>, <<49>>}
         THEN 1
    ELSE IF value.str \in
                {<<110, 111>>, <<102, 97, 108, 115, 101>>, <<102>>, <<110>>, <<48>>}
         THEN 0
    ELSE fallback

\* svParseBoolean: value is an optional string; TRUE is 1 and FALSE is 0
svParseBoolean(value, fallback) ==
    IF value.nil THEN fallback
    ELSE IF LowerCase(value.str) \in
                {<<121, 101, 115>>, <<116, 114, 117, 101>>, <<116>>, <<121>>, <<49>>}
         THEN 1
    ELSE IF LowerCase(value.str) \in
                {<<110, 111>>, <<102, 97, 108, 115, 101>>, <<102>>, <<110>>, <<48>>}
         THEN 0
    ELSE fallback

svGetValueBoolean(s, key, fallback) == svParseBoolean(_svGetValue(s, key), fallback)

\* the number a string of decimal digits writes
RECURSIVE DecimalOf(_)
DecimalOf(str) ==
    IF Len(str) = 0 THEN 0
    ELSE 10 * DecimalOf(SubSeq(str, 1, Len(str) - 1)) + (str[Len(str)] - 48)

\* _nm_utils_ascii_str_to_int64 in base 10, for the strings met here: digits
\* only, or holding a byte that is no part of a number
_nm_utils_ascii_str_to_int64(str, min, max, fallback) ==
    IF Len(str) > 0 /\ (\A i \in 1..Len(str) : g_ascii_isdigit(str[i]))
          /\ DecimalOf(str) >= min /\ DecimalOf(str) <= max
    THEN DecimalOf(str)
    ELSE fallback

svGetValueInt64(s, key, min, max, fallback) ==
    IF _svGetValue(s, key).nil THEN fallback
    ELSE _nm_utils_ascii_str_to_int64(_svGetValue(s, key).str, min, max, fallback)

\* svSetValue: the shvarFile as it is left; value is an optional string
svSetValue(s, key, value, isSigned) ==
    LET found == FindAll(s.lineList, key)
        earlier == IF found = {} THEN {} ELSE found \ {MaxOf(found)}
        list == RemoveAt(s.lineList, earlier)
        last == IF found = {} THEN 0 ELSE MaxOf(found) - Cardinality(earlier)
        collapsed == [s EXCEPT !.lineList = list,
                               !.modified = s.modified \/ earlier # {}]
    IN  IF value.nil
        THEN IF last # 0 /\ ~list[last].line.nil
             THEN [collapsed EXCEPT !.lineList[last].line = NullStr,
                                    !.modified = TRUE]
             ELSE collapsed
        ELSE IF last = 0
             THEN [collapsed EXCEPT
                      !.lineList = Append(list, line_new_build(key, value.str, isSigned)),
                      !.modified = TRUE]
             ELSE LET set == line_set(list[last], value.str, isSigned)
                  IN  [collapsed EXCEPT !.lineList[last] = set[1],
                                        !.modified = collapsed.modified \/ set[2]]

\* a variant of svSetValueString that hands the empty string on to svSetValue
SetStringAsGiven(s, key, value, isSigned) == svSetValue(s, key, value, isSigned)

svSetValueString(s, key, value, isSigned) ==
    svSetValue(s, key, IF ~value.nil /\ Len(value.str) > 0 THEN value ELSE NullStr,
               isSigned)

\* what "%lld" prints for value
RECURSIVE DecimalDigits(_)
DecimalDigits(value) ==
    IF value < 10 THEN <<48 + value>>
    ELSE Append(DecimalDigits(value \div 10), 48 + (value % 10))

nm_sprintf_buf(value) ==
    IF value < 0 THEN <<45>> \o DecimalDigits(0 - value) ELSE DecimalDigits(value)

svSetValueInt64(s, key, value, isSigned) ==
    svSetValue(s, key, Some(nm_sprintf_buf(value)), isSigned)

\* value is a gboolean: 0 is FALSE
svSetValueBoolean(s, key, value, isSigned) ==
    svSetValue(s, key, Some(IF value # 0 THEN <<121, 101, 115>> ELSE <<110, 111>>),
               isSigned)

svUnsetValue(s, key, isSigned) == svSetValue(s, key, NullStr, isSigned)

\* a variant of NMTag without the '#': "NM: "
NMTagBare == <<78, 77, 58, 32>>

\* "#NM: "
NMTag == <<35, 78, 77, 58, 32>>

\* a variant of WriteRaw that looks at the first byte, leading spaces included
WriteRawUnskipped(line) ==
    IF At(line.line.str, 0) \in {0, ASCII.hash}
    THEN <<line.line.str>>
    ELSE <<NMTag \o line.line.str>>

\* what the loop of svWriteFile prints for a line without a key: the lines,
\* without their '\n'
WriteRaw(line) ==
    IF At(nm_str_skip_leading_spaces(line.line.str), 0) \in {0, ASCII.hash}
    THEN <<line.line.str>>
    ELSE <<NMTag \o line.line.str>>

\* a variant of WriteAssignment that prints the value without unescaping it
WriteAssignmentUnchecked(line) ==
    <<line.key_with_prefix.str \o <<ASCII.eq>> \o line.line.str>>

\* a variant of WriteAssignment that keeps the leading spaces of the key in the
\* empty assignment it prints for a value that does not unescape
WriteAssignmentPrefixed(line) ==
    IF ~svUnescape(line.line.str).nil
    THEN <<line.key_with_prefix.str \o <<ASCII.eq>> \o line.line.str>>
    ELSE <<line.key_with_prefix.str \o <<ASCII.eq>>,
           NMTag \o line.key_with_prefix.str \o <<ASCII.eq>> \o line.line.str>>

\* a variant of WriteAssignment that prints the key without the white space
\* the file had before it
WriteAssignmentBare(line) ==
    IF ~svUnescape(line.line.str).nil
    THEN <<line.key.str \o <<ASCII.eq>> \o line.line.str>>
    ELSE <<line.key.str \o <<ASCII.eq>>,
           NMTag \o line.key_with_prefix.str \o <<ASCII.eq>> \o line.line.str>>

\* what the loop prints for a line with a key and a value
WriteAssignment(line) ==
    IF ~svUnescape(line.line.str).nil
    THEN <<line.key_with_prefix.str \o <<ASCII.eq>> \o line.line.str>>
    ELSE <<line.key.str \o <<ASCII.eq>>,
           NMTag \o line.key_with_prefix.str \o <<ASCII.eq>> \o line.line.str>>

\* a variant of WriteLine that prints an empty assignment for a line whose
\* value was unset
WriteLineTombstone(line) ==
    IF line.key.nil THEN WriteRaw(line)
    ELSE IF line.line.nil THEN <<line.key.str \o <<ASCII.eq>>>>
    ELSE WriteAssignment(line)

\* what one pass of the loop of svWriteFile prints
WriteLine(line) ==
    IF line.key.nil THEN WriteRaw(line)
    ELSE IF line.line.nil THEN <<>>
    ELSE WriteAssignment(line)

\* a variant of WriteLines that prints the last line first
RECURSIVE WriteLinesReversed(_)
WriteLinesReversed(lineList) ==
    IF Len(lineList) = 0 THEN <<>>
    ELSE WriteLinesReversed(Tail(lineList)) \o WriteLine(Head(lineList))

RECURSIVE WriteLines(_)
WriteLines(lineList) ==
    IF Len(lineList) = 0 THEN <<>>
    ELSE WriteLine(Head(lineList)) \o WriteLines(Tail(lineList))

\* the bytes of the lines, each followed by '\n'
RECURSIVE Printed(_)
Printed(lines) ==
    IF Len(lines) = 0 THEN <<>>
    ELSE Head(lines) \o <<ASCII.nl>> \o Printed(Tail(lines))

\* the lowest descriptor that is not open
NewFd(fds) == CHOOSE n \in 3..(3 + Cardinality(fds)) :
                  n \notin fds /\ \A m \in 3..(n - 1) : m \in fds

\* svOpenFileInternal on the file `disk` with the descriptors `fds` open.
\* rdwrOk, rdonlyOk: whether open(O_RDWR) and open(O_RDONLY) succeed on an
\* existing file; readOk: whether nm_utils_fd_get_contents succeeds.
\* isNull: NULL is returned; s: the shvarFile returned otherwise.
svOpenFileInternal(disk, fds, create, rdwrOk, rdonlyOk, readOk) ==
    LET rdwr == create /\ disk.exists /\ rdwrOk
        rdonly == ~rdwr /\ disk.exists /\ rdonlyOk
        closefd == rdonly
        fd == NewFd(fds)
        opens == (IF create THEN <<"open">> ELSE <<>>)
                    \o (IF rdwr THEN <<>> ELSE <<"open">>)
    IN  IF ~rdwr /\ ~rdonly
        THEN [isNull |-> ~create, s |-> svFile_new, fds |-> fds, sys |-> opens]
        ELSE IF ~readOk
        THEN [isNull |-> TRUE, s |-> svFile_new, fds |-> fds,
              sys |-> opens \o <<"read", "close">>]
        ELSE IF closefd
        THEN [isNull |-> FALSE,
              s |-> [svFile_new EXCEPT !.lineList = SplitLines(disk.data)],
              fds |-> fds, sys |-> opens \o <<"read", "close">>]
        ELSE [isNull |-> FALSE,
              s |-> [svFile_new EXCEPT !.lineList = SplitLines(disk.data), !.fd = fd],
              fds |-> fds \cup {fd}, sys |-> opens \o <<"read">>]

\* the body of svWriteFile that runs when s->modified is set, on the file
\* `disk`.  fail: the system call that fails when the code comes to make it, of
\* open (O_WRONLY | O_CREAT), ftruncate and dup, or "none".  The results of
\* fprintf and fclose are not looked at by the code and the bytes are taken as
\* written.
WriteModified(s, disk, fds, fail) ==
    LET doOpen == s.fd = -1
        fd == IF doOpen THEN (IF fail # "open" THEN NewFd(fds) ELSE -1) ELSE s.fd
        opened == IF doOpen THEN <<"open">> ELSE <<>>
        s1 == [s EXCEPT !.fd = fd]
        fds1 == IF fd = -1 THEN fds ELSE fds \cup {fd}
        disk1 == IF fd # -1 /\ ~disk.exists
                 THEN [exists |-> TRUE, data |-> <<>>] ELSE disk
        disk2 == [disk1 EXCEPT !.data = <<>>]
        disk3 == [disk2 EXCEPT !.data = Printed(WriteLines(s.lineList))]
    IN  IF fd = -1
        THEN [ret |-> FALSE, s |-> s1, disk |-> disk1, fds |-> fds1, sys |-> opened]
        ELSE IF fail = "ftruncate"
        THEN [ret |-> FALSE, s |-> s1, disk |-> disk1, fds |-> fds1,
              sys |-> opened \o <<"ftruncate">>]
        ELSE IF fail = "dup"
        THEN [ret |-> FALSE, s |-> s1, disk |-> disk2, fds |-> fds1,
              sys |-> opened \o <<"ftruncate", "dup">>]
        ELSE [ret |-> TRUE, s |-> s1, disk |-> disk3, fds |-> fds1,
              sys |-> opened \o <<"ftruncate", "dup", "write", "close">>]

\* a variant of svWriteFile that clears s->modified when it has written
WriteAndClear(s, disk, fds, fail) ==
    IF s.modified
    THEN LET r == WriteModified(s, disk, fds, fail)
         IN  [r EXCEPT !.s.modified = ~r.ret]
    ELSE [ret |-> TRUE, s |-> s, disk |-> disk, fds |-> fds, sys |-> <<>>]

\* a variant of svWriteFile that does not look at s->modified
WriteAlways(s, disk, fds, fail) == WriteModified(s, disk, fds, fail)

svWriteFile(s, disk, fds, fail) ==
    IF s.modified THEN WriteModified(s, disk, fds, fail)
    ELSE [ret |-> TRUE, s |-> s, disk |-> disk, fds |-> fds, sys |-> <<>>]

\* a variant of svCloseFile that closes nothing
CloseNothing(s, fds) == fds

\* svCloseFile: the descriptors left open
svCloseFile(s, fds) == IF s.fd # -1 THEN fds \ {s.fd} ELSE fds

(***************************************************************************)
(* The DCB helper sequence of nm-dcb.c.  A helper command is named by the  *)
(* tag that tells it from the others; the values printed after the tag     *)
(* (the a: and w: flags, the priority masks, the interface) decide nothing *)
(* about success or failure and are left out.                              *)
(***************************************************************************)
MaxFailures == 2

\* A GError location of the caller: unset, or set with the command that failed.
NoError == [set |-> FALSE, message |-> ""]

DcbCommands ==
    {"dcb on", "app:fcoe", "app:fcoe appcfg", "app:iscsi", "app:iscsi appcfg",
     "app:fip", "app:fip appcfg", "pfc", "pfc pfcup", "pg e:1", "pg e:0",
     "fcoeadm -m", "fcoeadm -d"}

\* The flags and the priority of one application, as SET_APP reads them.
AppSettings == [enable : BOOLEAN, prio : {-1, 0}]

\* The fields of NMSettingDcb that decide which commands are run.
DcbSettings ==
    [fcoe : AppSettings, iscsi : AppSettings, fip : AppSettings,
     pfc : BOOLEAN, pg : BOOLEAN]

\* The helpers that fail in one run: at most MaxFailures of the commands.
FailureSets == {f \in SUBSET DcbCommands : Cardinality(f) <= MaxFailures}

\* run_helper: the helper is missing, cannot be spawned or exits with a failure
\* (cmd \in fails), and the error is set; a location that is set already keeps
\* its first error.
run_helper(cmd, fails, st) ==
    IF cmd \in fails
    THEN [st EXCEPT !.success = FALSE,
                    !.error = IF st.error.set THEN st.error
                              ELSE [set |-> TRUE, message |-> cmd]]
    ELSE [st EXCEPT !.success = TRUE]

\* do_helper: builds the argument vector and runs run_func with the caller's
\* error location; preset tells that some helper was run with that location
\* set already.
do_helper(cmd, fails, st) ==
    run_helper(cmd, fails,
               [st EXCEPT !.calls = Append(st.calls, cmd),
                          !.preset = st.preset \/ st.error.set])

SET_FLAGS(tag) == <<tag>>

SET_APP(f, tag) ==
    SET_FLAGS(tag)
        \o (IF f.enable /\ f.prio >= 0 THEN <<tag \o " appcfg">> ELSE <<>>)

\* The commands of _dcb_setup whose failure returns FALSE at once, in order.
RECURSIVE DoHelpers(_, _, _)
DoHelpers(cmds, fails, st) ==
    IF cmds = <<>> THEN [st EXCEPT !.success = TRUE]
    ELSE LET r == do_helper(Head(cmds), fails, st)
         IN  IF ~r.success THEN r ELSE DoHelpers(Tail(cmds), fails, r)

_dcb_setup(s_dcb, fails, error) ==
    LET checked ==
            <<"dcb on">>
                \o SET_APP(s_dcb.fcoe, "app:fcoe")
                \o SET_APP(s_dcb.iscsi, "app:iscsi")
                \o SET_APP(s_dcb.fip, "app:fip")
                \o SET_FLAGS("pfc")
                \o (IF s_dcb.pfc THEN <<"pfc pfcup">> ELSE <<>>)
                \o (IF s_dcb.pg THEN <<"pg e:1">> ELSE <<>>)
        r == DoHelpers(checked, fails,
                       [success |-> TRUE, error |-> error, preset |-> FALSE,
                        calls |-> <<>>])
    IN  IF ~r.success THEN r
        ELSE IF s_dcb.pg THEN r
        \* the disable command: its result is dropped, its error location is
        \* the caller's
        ELSE [do_helper("pg e:0", fails, r) EXCEPT !.success = TRUE]

_fcoe_setup(s_dcb, fails, st) ==
    do_helper(IF s_dcb.fcoe.enable THEN "fcoeadm -m" ELSE "fcoeadm -d",
              fails, st)

nm_dcb_setup(s_dcb, fails, error) ==
    LET r == _dcb_setup(s_dcb, fails, error)
    IN  IF r.success THEN _fcoe_setup(s_dcb, fails, r) ELSE r

\* No caller of the DCB setup.
DcbIdle ==
    [pc |-> "none", s_dcb |-> <<>>, fails |-> {}, op |-> "none",
     ret |-> FALSE, error |-> NoError, preset |-> FALSE, calls |-> <<>>]

(***************************************************************************)
(* State.                                                                  *)
(***************************************************************************)
VARIABLES
    charSigned,     \* whether the build's plain char is signed
    codec,          \* a caller of the codec: its position and its strings
    disk,           \* the file: whether it exists, and its bytes
    fds,            \* the file descriptors that are open
    s,              \* the shvarFile (svFile_new while there is none)
    pc,             \* the position of the caller of the document
    last,           \* the last call: its name, arguments, result, system calls
    dcb             \* a caller of the DCB setup: its setting, the helpers, the result

vars == <<charSigned, codec, disk, fds, s, pc, last, dcb>>

\* the bytes the codec's callers build their strings from
CodecBytes == {1, 9, 13, 32, 34, 35, 36, 39, 49, 59, 92, 96, 97, 126, 127, 128, 255}

RECURSIVE StringsUpTo(_, _)
StringsUpTo(bytes, n) ==
    IF n = 0 THEN {<<>>}
    ELSE LET shorter == StringsUpTo(bytes, n - 1)
         IN  shorter \cup {Append(str, c) : str \in shorter, c \in bytes}

CodecIdle == [pc |-> "idle", v |-> <<>>, enc |-> <<>>, dec |-> NullStr]

(***************************************************************************)
(* A caller that escapes a value and unescapes the result.                 *)
(***************************************************************************)
\* nothing called yet.  before: the shvarFile a call that sets or unsets found;
\* file: the bytes of the file svWriteFile found
NoCall == [op |-> "none", key |-> <<>>, value |-> NullStr, ret |-> NullStr,
           num |-> 0, ok |-> TRUE, sys |-> <<>>, before |-> svFile_new, file |-> <<>>,
           fallback |-> 0]

NoDisk == [exists |-> FALSE, data |-> <<>>]

CodecInit ==
    /\ charSigned \in BOOLEAN
    /\ dcb = DcbIdle
    /\ disk = NoDisk /\ fds = {} /\ s = svFile_new /\ pc = "none" /\ last = NoCall
    /\ \E v \in StringsUpTo(CodecBytes, MaxLen) :
            codec = [pc |-> "value", v |-> v, enc |-> <<>>, dec |-> NullStr]

Escape ==
    /\ codec.pc = "value"
    /\ codec' = [codec EXCEPT !.pc = "escaped", !.enc = svEscape(codec.v, charSigned)]
    /\ UNCHANGED <<dcb, charSigned, disk, fds, s, pc, last>>

Unescape ==
    /\ codec.pc = "escaped"
    /\ codec' = [codec EXCEPT !.pc = "unescaped", !.dec = svUnescape(codec.enc)]
    /\ UNCHANGED <<dcb, charSigned, disk, fds, s, pc, last>>

CodecNext == Escape \/ Unescape

SpecCodec == CodecInit /\ [][CodecNext]_vars

(***************************************************************************)
(* A caller that unescapes a text as a file may hold it behind KEY=.       *)
(***************************************************************************)
\* the bytes of the texts: a ; # $ ` " ' \ | space and tab
TextBytes == {97, 59, 35, 36, 96, 34, 39, 92, 124, 32, 9}

\* the byte behind the backslash of a $'...' text: the letters of the table,
\* the digits 0 1 4 7 8, x u U, and c g z
EscapeBytes ==
    {97, 98, 101, 69, 102, 110, 114, 116, 118, 63, 34, 92, 39,
     48, 49, 52, 55, 56, 120, 117, 85, 99, 103, 122}

\* the bytes behind that one: 0 1 7 8 f g
TailBytes == {48, 49, 55, 56, 102, 103}

\* the bytes behind the opening double quote: a $ ` " \ ' ~
QuotedBytes == {97, 36, 96, 34, 92, 39, 126}

\* $'\ d tail '
AnsicText(d, tail) ==
    <<ASCII.dollar, ASCII.squote, ASCII.bslash, d>> \o tail \o <<ASCII.squote>>

DecodeInit ==
    /\ charSigned \in BOOLEAN
    /\ dcb = DcbIdle
    /\ disk = NoDisk /\ fds = {} /\ s = svFile_new /\ pc = "none" /\ last = NoCall
    /\ \/ \E n \in 0..MaxText : \E text \in [1..n -> TextBytes] :
            codec = [pc |-> "text", v |-> <<>>, enc |-> text, dec |-> NullStr]
       \/ \E d \in EscapeBytes, n \in 0..MaxTail : \E tail \in [1..n -> TailBytes] :
            codec = [pc |-> "text", v |-> <<>>, enc |-> AnsicText(d, tail),
                     dec |-> NullStr]
       \/ \E n \in 0..MaxQuoted : \E body \in [1..n -> QuotedBytes] :
            codec = [pc |-> "text", v |-> <<>>, enc |-> <<ASCII.dquote>> \o body,
                     dec |-> NullStr]

UnescapeText ==
    /\ codec.pc = "text"
    /\ codec' = [codec EXCEPT !.pc = "decoded", !.dec = svUnescape(codec.enc)]
    /\ UNCHANGED <<dcb, charSigned, disk, fds, s, pc, last>>

DecodeNext == UnescapeText

SpecDecode == DecodeInit /\ [][DecodeNext]_vars

(***************************************************************************)
(* A caller of the document: it opens or creates it, gets and sets values, *)
(* writes it back and closes it.                                           *)
(***************************************************************************)
\* the keys the caller uses: F and f
Keys == {<<70>>, <<102>>}

\* the values the caller sets: the empty string and "a b"
Values == {<<>>, <<97, 32, 98>>}

\* the physical lines the initial files are made of
LinePool ==
    { <<70, 61, 34, 97, 32, 98, 34>>,   \* F="a b"
      <<32, 70, 61, 34, 98>>,           \*  F="b    (the quote is not closed)
      <<102, 61, 34, 34>>,              \* f=""
      <<70, 32, 61, 49>> }              \* F =1     (no assignment)

RECURSIVE LineSeqsUpTo(_)
LineSeqsUpTo(n) ==
    IF n = 0 THEN {<<>>}
    ELSE LET shorter == LineSeqsUpTo(n - 1)
         IN  shorter \cup {Append(lines, l) : lines \in shorter, l \in LinePool}

\* the bytes of a file with these lines, each ended by '\n'
FileOf(lines) == Printed(lines)

Init ==
    /\ charSigned \in BOOLEAN
    /\ dcb = DcbIdle
    /\ codec = CodecIdle
    /\ \/ disk = NoDisk
       \/ \E lines \in LineSeqsUpTo(MaxLines) :
            disk = [exists |-> TRUE, data |-> FileOf(lines)]
    /\ fds = {}
    /\ s = svFile_new
    /\ pc = "start"
    /\ last = NoCall

Open(create, rdwrOk, rdonlyOk, readOk) ==
    LET r == svOpenFileInternal(disk, fds, create, rdwrOk, rdonlyOk, readOk)
    IN  /\ pc = "start"
        /\ s' = r.s
        /\ fds' = r.fds
        /\ pc' = IF r.isNull THEN "failed" ELSE "open"
        /\ last' = [NoCall EXCEPT !.op = IF create THEN "svCreateFile" ELSE "svOpenFile",
                                  !.ok = ~r.isNull, !.sys = r.sys]
        /\ UNCHANGED <<dcb, charSigned, codec, disk>>

SvOpenFile == \E rdonlyOk, readOk \in BOOLEAN : Open(FALSE, FALSE, rdonlyOk, readOk)

SvCreateFile == \E rdwrOk, rdonlyOk, readOk \in BOOLEAN : Open(TRUE, rdwrOk, rdonlyOk, readOk)

SvGetValueString ==
    \E key \in Keys :
        /\ pc = "open"
        /\ last' = [NoCall EXCEPT !.op = "svGetValueString", !.key = key,
                                  !.ret = svGetValueString(s, key)]
        /\ UNCHANGED <<dcb, charSigned, codec, disk, fds, s, pc>>

SvSetValue ==
    \E key \in Keys, value \in Values :
        /\ pc = "open"
        /\ s' = svSetValue(s, key, Some(value), charSigned)
        /\ last' = [NoCall EXCEPT !.op = "svSetValue", !.key = key, !.value = Some(value),
                                  !.before = s]
        /\ UNCHANGED <<dcb, charSigned, codec, disk, fds, pc>>

SvSetValueString ==
    \E key \in Keys, value \in Values :
        /\ pc = "open"
        /\ s' = svSetValueString(s, key, Some(value), charSigned)
        /\ last' = [NoCall EXCEPT !.op = "svSetValueString", !.key = key,
                                  !.value = Some(value), !.before = s]
        /\ UNCHANGED <<dcb, charSigned, codec, disk, fds, pc>>

SvUnsetValue ==
    \E key \in Keys :
        /\ pc = "open"
        /\ s' = svUnsetValue(s, key, charSigned)
        /\ last' = [NoCall EXCEPT !.op = "svUnsetValue", !.key = key,
                                  !.before = s]
        /\ UNCHANGED <<dcb, charSigned, codec, disk, fds, pc>>

SvWriteFile ==
    \E fail \in {"none", "open", "ftruncate", "dup"} :
        LET r == svWriteFile(s, disk, fds, fail)
        IN  /\ pc \in {"open", "written"}
            /\ s' = r.s
            /\ disk' = r.disk
            /\ fds' = r.fds
            /\ pc' = "written"
            /\ last' = [NoCall EXCEPT !.op = "svWriteFile", !.ok = r.ret, !.sys = r.sys,
                                      !.file = disk.data]
            /\ UNCHANGED <<dcb, charSigned, codec>>

SvCloseFile ==
    /\ pc \in {"open", "written"}
    /\ fds' = svCloseFile(s, fds)
    /\ s' = svFile_new
    /\ pc' = "closed"
    /\ last' = [NoCall EXCEPT !.op = "svCloseFile",
                              !.sys = IF s.fd # -1 THEN <<"close">> ELSE <<>>]
    /\ UNCHANGED <<dcb, charSigned, codec, disk>>

Next ==
    \/ SvOpenFile
    \/ SvCreateFile
    \/ SvGetValueString
    \/ SvSetValue
    \/ SvSetValueString
    \/ SvUnsetValue
    \/ SvWriteFile
    \/ SvCloseFile

Spec == Init /\ [][Next]_vars

(***************************************************************************)
(* A caller that rewrites a file as it is: it opens or creates the         *)
(* document, marks it modified, writes it back and closes it.              *)
(***************************************************************************)
RewritePool ==
    { <<>>,                     \* a blank line
      <<32, 9>>,                \* a space and a tab
      <<9, 35, 99>>,            \* a tab, then #c
      <<32, 101, 32, 70>>,      \*  e F     (no assignment, behind a space)
      <<70, 61, 49, 32, 35>>,   \* F=1 #
      <<32, 70, 61, 34, 98>> }  \*  F="b    (the quote is not closed)

RECURSIVE RewriteSeqsUpTo(_)
RewriteSeqsUpTo(n) ==
    IF n = 0 THEN {<<>>}
    ELSE LET shorter == RewriteSeqsUpTo(n - 1)
         IN  shorter \cup {Append(lines, l) : lines \in shorter, l \in RewritePool}

\* the bytes of a file whose last line ends with '\n' only if eofNl
FileEnding(lines, eofNl) ==
    IF Len(lines) = 0 \/ eofNl THEN Printed(lines)
    ELSE Printed(SubSeq(lines, 1, Len(lines) - 1)) \o lines[Len(lines)]

RewriteInit ==
    /\ charSigned \in BOOLEAN
    /\ dcb = DcbIdle
    /\ codec = CodecIdle
    /\ \/ disk = NoDisk
       \/ \E lines \in RewriteSeqsUpTo(MaxLines), eofNl \in BOOLEAN :
            disk = [exists |-> TRUE, data |-> FileEnding(lines, eofNl)]
    /\ fds = {}
    /\ s = svFile_new
    /\ pc = "start"
    /\ last = NoCall

SvGetValueBoolean ==
    \E key \in Keys, fallback \in {0, 1} :
        /\ pc = "open"
        /\ last' = [NoCall EXCEPT !.op = "svGetValueBoolean", !.key = key,
                                  !.fallback = fallback,
                                  !.num = svGetValueBoolean(s, key, fallback)]
        /\ UNCHANGED <<dcb, charSigned, codec, disk, fds, s, pc>>

SvGetValueInt64 ==
    \E key \in Keys :
        /\ pc = "open"
        /\ last' = [NoCall EXCEPT !.op = "svGetValueInt64", !.key = key,
                                  !.num = svGetValueInt64(s, key, 0, 9, -1)]
        /\ UNCHANGED <<dcb, charSigned, codec, disk, fds, s, pc>>

SvFileSetModified ==
    /\ pc = "open"
    /\ s' = svFileSetModified(s)
    /\ last' = [NoCall EXCEPT !.op = "svFileSetModified"]
    /\ UNCHANGED <<dcb, charSigned, codec, disk, fds, pc>>

RewriteNext ==
    \/ SvOpenFile
    \/ SvCreateFile
    \/ SvGetValueString
    \/ SvGetValueBoolean
    \/ SvGetValueInt64
    \/ SvFileSetModified
    \/ SvWriteFile
    \/ SvCloseFile

SpecRewrite == RewriteInit /\ [][RewriteNext]_vars


(***************************************************************************)
(* A caller that sets and unsets one key, F, in a file that holds comments *)
(* and lines with the key f as well, and writes it back.  The file, when   *)
(* there is one, can be opened for reading and is read.                    *)
(***************************************************************************)
\* the keys this caller sets and unsets
Touched == {<<70>>}

KeepPool ==
    { <<9, 35, 99>>,                        \* a tab, then #c
      <<32, 102, 61, 34, 97, 34, 32, 35>>,  \*  f="a" #
      <<102, 61, 34, 98>>,                  \* f="b    (the quote is not closed)
      <<70, 61, 49>>,                       \* F=1
      <<101, 32, 70>> }                     \* e F     (no assignment)

RECURSIVE KeepSeqsUpTo(_)
KeepSeqsUpTo(n) ==
    IF n = 0 THEN {<<>>}
    ELSE LET shorter == KeepSeqsUpTo(n - 1)
         IN  shorter \cup {Append(lines, l) : lines \in shorter, l \in KeepPool}

KeepInit ==
    /\ charSigned \in BOOLEAN
    /\ dcb = DcbIdle
    /\ codec = CodecIdle
    /\ \/ disk = NoDisk
       \/ \E lines \in KeepSeqsUpTo(MaxLines) :
            disk = [exists |-> TRUE, data |-> FileOf(lines)]
    /\ fds = {}
    /\ s = svFile_new
    /\ pc = "start"
    /\ last = NoCall

\* svOpenFile or svCreateFile on a file that is read when it is there
KeepOpen == \E create, rdwrOk \in BOOLEAN : Open(create, rdwrOk, TRUE, TRUE)

SvSetValueTouched ==
    \E key \in Touched, value \in Values :
        /\ pc = "open"
        /\ s' = svSetValue(s, key, Some(value), charSigned)
        /\ last' = [NoCall EXCEPT !.op = "svSetValue", !.key = key, !.value = Some(value),
                                  !.before = s]
        /\ UNCHANGED <<dcb, charSigned, codec, disk, fds, pc>>

SvUnsetValueTouched ==
    \E key \in Touched :
        /\ pc = "open"
        /\ s' = svUnsetValue(s, key, charSigned)
        /\ last' = [NoCall EXCEPT !.op = "svUnsetValue", !.key = key,
                                  !.before = s]
        /\ UNCHANGED <<dcb, charSigned, codec, disk, fds, pc>>

KeepNext ==
    \/ KeepOpen
    \/ SvSetValueTouched
    \/ SvUnsetValueTouched
    \/ SvWriteFile
    \/ SvCloseFile

SpecKeep == KeepInit /\ [][KeepNext]_vars

(***************************************************************************)
(* A caller that rewrites a file again and again: when it has closed the   *)
(* document it turns to the file as it then is.  The file, when there is   *)
(* one, can be opened for reading and is read.                             *)
(***************************************************************************)
OpenAgain ==
    /\ pc = "closed"
    /\ pc' = "start"
    /\ last' = NoCall
    /\ UNCHANGED <<dcb, charSigned, codec, disk, fds, s>>

AgainNext ==
    \/ KeepOpen
    \/ SvFileSetModified
    \/ SvWriteFile
    \/ SvCloseFile
    \/ OpenAgain

SpecAgain == RewriteInit /\ [][AgainNext]_vars

(***************************************************************************)
(* A caller of the DCB setup: it holds a setting and an unset error        *)
(* location, the helpers fail as `fails' says, and it calls _dcb_setup or  *)
(* nm_dcb_setup once.                                                      *)
(***************************************************************************)
DcbInit ==
    /\ charSigned = FALSE
    /\ codec = CodecIdle
    /\ disk = NoDisk /\ fds = {} /\ s = svFile_new /\ pc = "none" /\ last = NoCall
    /\ \E s_dcb \in DcbSettings : \E fails \in FailureSets :
           dcb = [DcbIdle EXCEPT !.pc = "ready", !.s_dcb = s_dcb,
                                 !.fails = fails]

\* The caller after the call op has returned r.
DcbReturn(op, r) ==
    [dcb EXCEPT !.pc = "done", !.op = op, !.ret = r.success,
                !.error = r.error, !.preset = r.preset, !.calls = r.calls]

DcbSetup ==
    /\ dcb.pc = "ready"
    /\ dcb' = DcbReturn("_dcb_setup",
                        _dcb_setup(dcb.s_dcb, dcb.fails, dcb.error))
    /\ UNCHANGED <<charSigned, codec, disk, fds, s, pc, last>>

NmDcbSetup ==
    /\ dcb.pc = "ready"
    /\ dcb' = DcbReturn("nm_dcb_setup",
                        nm_dcb_setup(dcb.s_dcb, dcb.fails, dcb.error))
    /\ UNCHANGED <<charSigned, codec, disk, fds, s, pc, last>>

DcbNext == DcbSetup \/ NmDcbSetup

SpecDcb == DcbInit /\ [][DcbNext]_vars

(***************************************************************************)
(* A caller that hands the setters keys that are no names.  The            *)
(* nm_assert on the key at the head of svSetValue ends the program in a    *)
(* build with assertions and is no code in a build without, so both are    *)
(* outcomes of such a call.                                                *)
(***************************************************************************)
\* the empty key and 1-
InvalidKeys == {<<>>, <<49, 45>>}

\* a setter called with key, which leaves the shvarFile as after when it runs
\* to its end; the caller stops setting when the document is above MaxLines
SetterCall(op, key, value, num, after) ==
    /\ pc = "open"
    /\ Len(s.lineList) <= MaxLines
    /\ \/ /\ ~_shell_is_name(key)
          /\ pc' = "aborted"
          /\ s' = s
       \/ /\ pc' = pc
          /\ s' = after
    /\ last' = [NoCall EXCEPT !.op = op, !.key = key, !.value = value, !.num = num,
                              !.before = s]
    /\ UNCHANGED <<dcb, charSigned, codec, disk, fds>>

SvSetValueAnyKey ==
    \E key \in InvalidKeys, value \in Values :
        SetterCall("svSetValue", key, Some(value), 0,
                   svSetValue(s, key, Some(value), charSigned))

SvSetValueStringAnyKey ==
    \E key \in InvalidKeys, value \in Values :
        SetterCall("svSetValueString", key, Some(value), 0,
                   svSetValueString(s, key, Some(value), charSigned))

SvSetValueInt64AnyKey ==
    \E key \in InvalidKeys :
        SetterCall("svSetValueInt64", key, NullStr, 10,
                   svSetValueInt64(s, key, 10, charSigned))

SvSetValueBooleanAnyKey ==
    \E key \in InvalidKeys :
        SetterCall("svSetValueBoolean", key, NullStr, 1,
                   svSetValueBoolean(s, key, 1, charSigned))

SvUnsetValueAnyKey ==
    \E key \in InvalidKeys :
        SetterCall("svUnsetValue", key, NullStr, 0, svUnsetValue(s, key, charSigned))

InvalidNext ==
    \/ KeepOpen
    \/ SvSetValueAnyKey
    \/ SvSetValueStringAnyKey
    \/ SvSetValueInt64AnyKey
    \/ SvSetValueBooleanAnyKey
    \/ SvUnsetValueAnyKey
    \/ SvWriteFile
    \/ SvCloseFile

SpecInvalid == KeepInit /\ [][InvalidNext]_vars

(***************************************************************************)
(* One physical line by itself: it is parsed into the only line of a       *)
(* document.                                                               *)
(***************************************************************************)
\* space, tab, '#', '1', '=', 'F', '_', 'f'
LineBytes == {32, 9, 35, 49, 61, 70, 95, 102}

ParseInit ==
    /\ charSigned \in BOOLEAN
    /\ dcb = DcbIdle
    /\ \E n \in 0..MaxLine : \E l \in [1..n -> LineBytes] :
            codec = [pc |-> "line", v |-> <<>>, enc |-> l, dec |-> NullStr]
    /\ disk = NoDisk
    /\ fds = {}
    /\ s = svFile_new
    /\ pc = "none"
    /\ last = NoCall

ParseLine ==
    /\ codec.pc = "line"
    /\ codec' = [codec EXCEPT !.pc = "parsed"]
    /\ s' = [s EXCEPT !.lineList = <<line_new_parse(codec.enc)>>]
    /\ UNCHANGED <<dcb, charSigned, disk, fds, pc, last>>

ParseNext == ParseLine

SpecParse == ParseInit /\ [][ParseNext]_vars

(***************************************************************************)
(* A caller that keeps booleans and numbers in the document: it opens or   *)
(* creates it, sets the key F with every setter and reads booleans.        *)
(***************************************************************************)
TypedPool ==
    { <<32, 70, 61, 121, 101, 115>>,    \*  F=yes
      <<70, 61, 34, 110, 79, 34>>,      \* F="nO"
      <<70, 61, 49, 48>>,               \* F=10
      <<102, 61, 48>>,                  \* f=0
      <<102, 61>>,                      \* f=
      <<32, 102, 61, 34, 98>>,          \*  f="b    (the quote is not closed)
      <<70, 32, 61, 49>> }              \* F =1     (no assignment)

\* the numbers the caller sets
Numbers == {-1, 10}

RECURSIVE TypedSeqsUpTo(_)
TypedSeqsUpTo(n) ==
    IF n = 0 THEN {<<>>}
    ELSE LET shorter == TypedSeqsUpTo(n - 1)
         IN  shorter \cup {Append(lines, l) : lines \in shorter, l \in TypedPool}

TypedInit ==
    /\ charSigned \in BOOLEAN
    /\ dcb = DcbIdle
    /\ codec = CodecIdle
    /\ \/ disk = NoDisk
       \/ \E lines \in TypedSeqsUpTo(MaxLines) :
            disk = [exists |-> TRUE, data |-> FileOf(lines)]
    /\ fds = {}
    /\ s = svFile_new
    /\ pc = "start"
    /\ last = NoCall

SvSetValueStringTouched ==
    \E key \in Touched, value \in Values :
        /\ pc = "open"
        /\ s' = svSetValueString(s, key, Some(value), charSigned)
        /\ last' = [NoCall EXCEPT !.op = "svSetValueString", !.key = key,
                                  !.value = Some(value), !.before = s]
        /\ UNCHANGED <<dcb, charSigned, codec, disk, fds, pc>>

SvSetValueInt64 ==
    \E key \in Touched, value \in Numbers :
        /\ pc = "open"
        /\ s' = svSetValueInt64(s, key, value, charSigned)
        /\ last' = [NoCall EXCEPT !.op = "svSetValueInt64", !.key = key,
                                  !.num = value, !.before = s]
        /\ UNCHANGED <<dcb, charSigned, codec, disk, fds, pc>>

SvSetValueBoolean ==
    \E key \in Touched, value \in {0, 1} :
        /\ pc = "open"
        /\ s' = svSetValueBoolean(s, key, value, charSigned)
        /\ last' = [NoCall EXCEPT !.op = "svSetValueBoolean", !.key = key,
                                  !.num = value, !.before = s]
        /\ UNCHANGED <<dcb, charSigned, codec, disk, fds, pc>>

TypedNext ==
    \/ SvOpenFile
    \/ SvCreateFile
    \/ SvSetValueTouched
    \/ SvSetValueStringTouched
    \/ SvSetValueInt64
    \/ SvSetValueBoolean
    \/ SvUnsetValueTouched
    \/ SvGetValueBoolean

SpecTyped == TypedInit /\ [][TypedNext]_vars

(***************************************************************************)
(* What the claims say of a line of the file.                              *)
(***************************************************************************)
\* the line holds nothing but white space
IsBlankLine(l) == \A i \in 1..Len(l) : g_ascii_isspace(l[i])

\* the first byte of the line that is no white space is '#'
IsCommentLine(l) ==
    \E i \in 1..Len(l) :
        l[i] = ASCII.hash /\ \A j \in 1..(i - 1) : g_ascii_isspace(l[j])

\* the line is white space, a name, '=' and a value: <<the name, the value>>
\* of every such reading of it
AssignmentsIn(l) ==
    {<<SubSeq(l, p[1] + 1, p[2] - 1), Drop(l, p[2])>> :
        p \in {q \in (0..Len(l)) \X (1..Len(l)) :
                /\ l[q[2]] = ASCII.eq
                /\ q[1] < q[2]
                /\ \A j \in 1..q[1] : g_ascii_isspace(l[j])
                /\ _shell_is_name(SubSeq(l, q[1] + 1, q[2] - 1))}}

\* the line assigns to key
AssignsTo(l, key) == \E a \in AssignmentsIn(l) : a[1] = key

\* the last call was an svWriteFile that came to print the lines
Wrote ==
    /\ last.op = "svWriteFile"
    /\ \E i \in 1..Len(last.sys) : last.sys[i] = "write"

\* the lines of the file as it is
DiskLines == CutLines(disk.data)

(***************************************************************************)
(* C1.  Round trip: for every byte string v without a newline (the empty   *)
(* string, quotes, backslashes, '$', backticks, control bytes and bytes    *)
(* from 0x80 included), svUnescape of svEscape(v) succeeds and returns     *)
(* exactly v.                                                              *)
(***************************************************************************)
C1_RoundTrip == codec.pc = "unescaped" => codec.dec = Some(codec.v)

\* a string with a quote, a control byte and the byte 0xff went through both
C1_Witness ==
    /\ codec.pc = "unescaped"
    /\ codec.v = <<ASCII.dquote, 1, 255>>
    /\ codec.enc # codec.v
    /\ codec.dec = Some(codec.v)

(***************************************************************************)
(* C2.  Output safety: whatever the file held and whatever was set and     *)
(* unset, every line svWriteFile prints is blank, or a comment whose first *)
(* byte after the white space is '#', or white space, a name, '=' and a    *)
(* value that svUnescape accepts.                                          *)
(***************************************************************************)
C2_OutputSafety ==
    Wrote =>
        \A i \in 1..Len(DiskLines) :
            \/ IsBlankLine(DiskLines[i])
            \/ IsCommentLine(DiskLines[i])
            \/ \E a \in AssignmentsIn(DiskLines[i]) : ~svUnescape(a[2]).nil

\* lines were printed for a document that holds a line without a key that is
\* no comment, and a value that does not unescape
C2_Witness ==
    /\ Wrote
    /\ \E i \in 1..Len(s.lineList) :
            /\ s.lineList[i].key.nil
            /\ ~IsBlankLine(s.lineList[i].line.str)
            /\ ~IsCommentLine(s.lineList[i].line.str)
    /\ \E i \in 1..Len(s.lineList) :
            /\ ~s.lineList[i].key.nil
            /\ ~s.lineList[i].line.nil
            /\ svUnescape(s.lineList[i].line.str).nil

(***************************************************************************)
(* C3.  Idempotent write: svWriteFile on a document whose modified flag is *)
(* not set opens, truncates and writes nothing and returns TRUE; opening   *)
(* or creating a document and getting values, booleans and integers from   *)
(* it leaves the flag unset and the file as it is, and a document created  *)
(* for a path that does not exist does not create the file.                *)
(***************************************************************************)
C3_IdempotentWrite ==
    [][ /\ (last'.op = "svWriteFile" /\ ~s.modified) =>
                /\ last'.ok
                /\ last'.sys = <<>>
                /\ disk' = disk /\ fds' = fds /\ s' = s
        /\ (last'.op \in {"svGetValueString", "svGetValueBoolean", "svGetValueInt64"}) =>
                s' = s /\ disk' = disk
        /\ (last'.op \in {"svOpenFile", "svCreateFile"}) =>
                ~s'.modified /\ disk' = disk
      ]_vars

\* a document created for a file that does not exist was written: no system
\* call was made and there is still no file
C3_Witness ==
    /\ last.op = "svWriteFile"
    /\ last.ok
    /\ last.sys = <<>>
    /\ ~s.modified
    /\ s.fd = -1
    /\ ~disk.exists

\* the lines of lineList that shlist_find does not match for key, in order
OtherLines(lineList, key) ==
    SelectSeq(lineList, LAMBDA line : line.key # Some(key))

\* the lines svWriteFile would print for lineList that assign to key
PrintedFor(lineList, key) ==
    SelectSeq(WriteLines(lineList), LAMBDA l : AssignsTo(l, key))

(***************************************************************************)
(* C4.  Duplicate collapse: after svSetValue(key, v) with v not NULL the   *)
(* document holds exactly one line with this key, however many it held; it *)
(* sits where the last of them was (or at the very end, its key without    *)
(* leading white space, when there was none), the earlier ones are removed *)
(* and no other line moves, and svWriteFile prints exactly one line that   *)
(* assigns to key: key=svEscape(v).                                        *)
(***************************************************************************)
C4_DuplicateCollapse ==
    last.op = "svSetValue" =>
        LET key == last.key
            escaped == svEscape(last.value.str, charSigned)
            old == last.before.lineList
            found == FindAll(old, key)
            now == FindAll(s.lineList, key)
            p == MaxOf(now)
        IN  /\ Cardinality(now) = 1
            /\ s.lineList[p].key = Some(key)
            /\ s.lineList[p].line = Some(escaped)
            /\ OtherLines(s.lineList, key) = OtherLines(old, key)
            /\ IF found = {}
               THEN /\ p = Len(s.lineList)
                    /\ s.lineList[p].key_with_prefix = Some(key)
               ELSE /\ p = MaxOf(found) - (Cardinality(found) - 1)
                    /\ SubSeq(s.lineList, p + 1, Len(s.lineList))
                            = SubSeq(old, MaxOf(found) + 1, Len(old))
            /\ PrintedFor(s.lineList, key) = <<key \o <<ASCII.eq>> \o escaped>>

\* a key that two lines or more assigned to was set to a value that is not
\* empty, and the document is shorter for it
C4_Witness ==
    /\ last.op = "svSetValue"
    /\ Cardinality(FindAll(last.before.lineList, last.key)) >= 2
    /\ Len(last.value.str) > 0
    /\ Cardinality(FindAll(s.lineList, last.key)) = 1
    /\ Len(s.lineList) < Len(last.before.lineList)

(***************************************************************************)
(* C5.  Tombstone omission: after svUnsetValue(key) on a document that     *)
(* held lines with this key, one line with the key stays in memory, its    *)
(* value NULL, and as long as the key is not set again svWriteFile prints  *)
(* no line that assigns to it: neither key=value nor an empty key=.        *)
(***************************************************************************)
C5_TombstoneOmission ==
    /\ (last.op = "svUnsetValue" /\ FindAll(last.before.lineList, last.key) # {}) =>
            /\ Cardinality(FindAll(s.lineList, last.key)) = 1
            /\ s.lineList[MaxOf(FindAll(s.lineList, last.key))].line.nil
            /\ PrintedFor(s.lineList, last.key) = <<>>
    /\ Wrote =>
            \A i \in 1..Len(s.lineList) :
                (~s.lineList[i].key.nil /\ s.lineList[i].line.nil) =>
                    \A j \in 1..Len(DiskLines) :
                        ~AssignsTo(DiskLines[j], s.lineList[i].key.str)

\* the file was written from a document in which a key is unset and other
\* lines are left
C5_Witness ==
    /\ Wrote
    /\ \E i \in 1..Len(s.lineList) : ~s.lineList[i].key.nil /\ s.lineList[i].line.nil
    /\ Len(DiskLines) > 0

\* a line without a key
IsRaw(line) == line.key.nil

\* a line with a key whose value is there and does not unescape
IsMalformed(line) ==
    ~line.key.nil /\ ~line.line.nil /\ svUnescape(line.line.str).nil

\* what C6 says is printed for the lines without a key, and what WriteLine
\* prints for the others
RECURSIVE RawNeutralized(_)
RawNeutralized(lineList) ==
    IF Len(lineList) = 0 THEN <<>>
    ELSE (IF ~IsRaw(Head(lineList)) THEN WriteLine(Head(lineList))
          ELSE IF IsBlankLine(Head(lineList).line.str)
                    \/ IsCommentLine(Head(lineList).line.str)
               THEN <<Head(lineList).line.str>>
               ELSE <<NMTag \o Head(lineList).line.str>>)
         \o RawNeutralized(Tail(lineList))

(***************************************************************************)
(* C6.  Raw-line neutralization: svWriteFile prints every line without a   *)
(* key that is blank or a comment (after its leading white space) as it    *)
(* is, and every other line without a key as "#NM: " and its whole text,   *)
(* leading white space included, each followed by a newline; none is       *)
(* dropped, and none that is not blank or a comment is printed as it is.   *)
(***************************************************************************)
C6_RawNeutralization ==
    Wrote => disk.data = Printed(RawNeutralized(s.lineList))

\* a file was written that holds a comment behind a tab and a line behind a
\* space that is neither a comment nor an assignment
C6_Witness ==
    /\ Wrote
    /\ \E i \in 1..Len(s.lineList) :
            /\ IsRaw(s.lineList[i])
            /\ IsCommentLine(s.lineList[i].line.str)
            /\ s.lineList[i].line.str[1] # ASCII.hash
    /\ \E i \in 1..Len(s.lineList) :
            /\ IsRaw(s.lineList[i])
            /\ ~IsBlankLine(s.lineList[i].line.str)
            /\ ~IsCommentLine(s.lineList[i].line.str)
            /\ g_ascii_isspace(s.lineList[i].line.str[1])

(***************************************************************************)
(* C7.  Malformed-value neutralization: for a line with a key whose value  *)
(* is there and does not unescape, svWriteFile prints two lines in this    *)
(* order: key= (the key without its leading white space, no value), then   *)
(* "#NM: " and the text key_with_prefix=value as it was; the text is never *)
(* printed as an assignment.                                               *)
(***************************************************************************)
C7_MalformedNeutralization ==
    Wrote =>
        /\ \A i \in 1..Len(s.lineList) :
                IsMalformed(s.lineList[i]) =>
                    LET at == Len(WriteLines(SubSeq(s.lineList, 1, i - 1)))
                        text == s.lineList[i].key_with_prefix.str \o <<ASCII.eq>>
                                    \o s.lineList[i].line.str
                    IN  /\ Len(DiskLines) >= at + 2
                        /\ DiskLines[at + 1] = s.lineList[i].key.str \o <<ASCII.eq>>
                        /\ DiskLines[at + 2] = NMTag \o text
                        /\ \A j \in 1..Len(DiskLines) : DiskLines[j] # text
        /\ Len(DiskLines) = Len(WriteLines(s.lineList))

\* a file was written from a document that holds a value that does not
\* unescape, behind a key that has leading white space
C7_Witness ==
    /\ Wrote
    /\ \E i \in 1..Len(s.lineList) :
            /\ IsMalformed(s.lineList[i])
            /\ s.lineList[i].key_with_prefix # s.lineList[i].key
            /\ Len(s.lineList) > 1

(***************************************************************************)
(* C8.  Empty-string semantics: svSetValueString(key, "") does exactly     *)
(* what svUnsetValue(key) does, and no line of the written file assigns to *)
(* key; svSetValue(key, "") keeps or makes the line with an empty value    *)
(* that is not NULL, and svWriteFile prints key= for it.                   *)
(***************************************************************************)
C8_EmptyString ==
    /\ (last.op = "svSetValueString" /\ last.value = Some(<<>>)) =>
            /\ s = svUnsetValue(last.before, last.key, charSigned)
            /\ PrintedFor(s.lineList, last.key) = <<>>
            /\ \A i \in FindAll(s.lineList, last.key) : s.lineList[i].line.nil
    /\ (last.op = "svSetValue" /\ last.value = Some(<<>>)) =>
            /\ Cardinality(FindAll(s.lineList, last.key)) = 1
            /\ \A i \in FindAll(s.lineList, last.key) : s.lineList[i].line = Some(<<>>)
            /\ PrintedFor(s.lineList, last.key) = <<last.key \o <<ASCII.eq>>>>

\* svSetValueString(key, "") on a document that held a value for key
C8_Witness ==
    /\ last.op = "svSetValueString"
    /\ last.value = Some(<<>>)
    /\ \E i \in FindAll(last.before.lineList, last.key) :
            ~last.before.lineList[i].line.nil
    /\ \E i \in FindAll(s.lineList, last.key) : s.lineList[i].line.nil

\* what the claim says get(key) returns on lineList: nothing when no line has
\* the key, when the value of the last line that has it is NULL or empty or
\* does not unescape; else that value unescaped
GetAsClaimed(lineList, key) ==
    LET found == FindAll(lineList, key)
        value == lineList[MaxOf(found)].line
    IN  IF found = {} THEN NullStr
        ELSE IF value.nil \/ value.str = <<>> THEN NullStr
        ELSE IF svUnescape(value.str).nil THEN NullStr
        ELSE svUnescape(value.str)

\* the same, and nothing when the value unescapes to the empty string
GetAmended(lineList, key) ==
    IF GetAsClaimed(lineList, key) = Some(<<>>) THEN NullStr
    ELSE GetAsClaimed(lineList, key)

(***************************************************************************)
(* C9.  svGetValueString(key) depends only on the last line in document    *)
(* order whose key is exactly key (case matters): it returns NULL when     *)
(* there is no such line, when the value of that line is NULL, does not    *)
(* unescape, or unescapes to the empty string (no error, and no earlier    *)
(* line with the key is looked at); else it returns that value unescaped.  *)
(***************************************************************************)
C9_GetLastAssignment ==
    last.op = "svGetValueString" => last.ret = GetAmended(s.lineList, last.key)

\* the claim as it stands: a value whose text is not empty and unescapes is
\* returned unescaped, also when that is the empty string
C9_AsClaimed ==
    last.op = "svGetValueString" => last.ret = GetAsClaimed(s.lineList, last.key)

\* a key was got whose last line holds text that unescapes to the empty string
C9_Witness ==
    /\ last.op = "svGetValueString"
    /\ GetAsClaimed(s.lineList, last.key) = Some(<<>>)
    /\ last.ret = NullStr

(***************************************************************************)
(* C10.  Set and get: on every document, for every key k and every value v *)
(* that is not empty, svGetValueString(k) right after svSetValue(k, v)     *)
(* returns exactly v, and right after svUnsetValue(k) it returns NULL; in  *)
(* both cases svGetValueString(k2) for every other key k2 returns what it  *)
(* returned before.                                                        *)
(***************************************************************************)
C10_SetGetRoundTrip ==
    /\ (last.op = "svSetValue" /\ last.value.str # <<>>) =>
            svGetValueString(s, last.key) = last.value
    /\ last.op = "svUnsetValue" =>
            svGetValueString(s, last.key) = NullStr
    /\ last.op \in {"svSetValue", "svUnsetValue"} =>
            \A k2 \in Keys \ {last.key} :
                svGetValueString(s, k2) = svGetValueString(last.before, k2)

\* a key whose last line held a value that does not unescape was set to a
\* value, in a document that holds a line with another key
C10_Witness ==
    /\ last.op = "svSetValue"
    /\ last.value.str # <<>>
    /\ \E i \in FindAll(last.before.lineList, last.key) :
            IsMalformed(last.before.lineList[i])
    /\ \E k2 \in Keys \ {last.key} : FindAll(s.lineList, k2) # {}
    /\ svGetValueString(s, last.key) = last.value

(***************************************************************************)
(* C11.  svCreateFile never fails: whatever comes of the open and read     *)
(* calls (no file, a file that cannot be opened, a read that fails, a file *)
(* above the 10 MiB that are read), it returns a shvarFile, never NULL.    *)
(***************************************************************************)
C11_CreateNeverFails == last.op = "svCreateFile" => last.ok

\* some byte of text is in set
HasByte(text, set) == \E i \in 1..Len(text) : text[i] \in set

\* text holds no quote and no backslash, so that each of its bytes stands
\* unquoted and unescaped, and it holds a '`' or a '$'
BareExpansion(text) ==
    /\ ~HasByte(text, {ASCII.dquote, ASCII.squote, ASCII.bslash})
    /\ HasByte(text, {ASCII.btick, ASCII.dollar})

\* text is one double-quoted run without a backslash that holds a '`' or a '$'
QuotedExpansion(text) ==
    /\ Len(text) >= 3
    /\ text[1] = ASCII.dquote /\ text[Len(text)] = ASCII.dquote
    /\ ~HasByte(SubSeq(text, 2, Len(text) - 1), {ASCII.dquote, ASCII.bslash})
    /\ HasByte(SubSeq(text, 2, Len(text) - 1), {ASCII.btick, ASCII.dollar})

(***************************************************************************)
(* C12.  svUnescape refuses shell expansion inside double quotes only: a   *)
(* '`' or '$' that stands in a double-quoted run without a backslash makes *)
(* it return NULL, while outside quotes a '`' or a '$' that does not open  *)
(* $'...' is taken as it is, so that a text of such bytes and ordinary     *)
(* ones (as $HOME) is returned whole.                                      *)
(***************************************************************************)
C12_ExpansionInQuotesOnly ==
    codec.pc = "decoded" =>
        /\ (/\ BareExpansion(codec.enc)
            /\ ~HasByte(codec.enc, {ASCII.space, ASCII.tab, ASCII.semi, ASCII.pipe}))
                => codec.dec = Some(codec.enc)
        /\ QuotedExpansion(codec.enc) => codec.dec.nil

\* the claim as it stands: a text with a '`' or '$' that is neither quoted
\* nor escaped does not unescape
C12_AsClaimed ==
    (codec.pc = "decoded" /\ BareExpansion(codec.enc)) => codec.dec.nil

\* $a` was unescaped, and came back whole
C12_Witness ==
    /\ codec.pc = "decoded"
    /\ codec.enc = <<ASCII.dollar, 97, ASCII.btick>>
    /\ codec.dec = Some(codec.enc)

\* a line the claim says is left as it is: blank, a comment, or an assignment
\* to a key that is not set or unset, with a value that unescapes
IsUntouched(l) ==
    \/ IsBlankLine(l)
    \/ IsCommentLine(l)
    \/ \E a \in AssignmentsIn(l) : a[1] \notin Touched /\ ~svUnescape(a[2]).nil

\* the lines a are among the lines b, in the same order
RECURSIVE IsSubSeq(_, _)
IsSubSeq(a, b) ==
    IF Len(a) = 0 THEN TRUE
    ELSE IF Len(b) = 0 THEN FALSE
    ELSE IF Head(a) = Head(b) THEN IsSubSeq(Tail(a), Tail(b))
    ELSE IsSubSeq(a, Tail(b))

RECURSIVE BackslashedIn(_)
BackslashedIn(v) ==
    IF Len(v) = 0 THEN <<>>
    ELSE (IF Head(v) \in {34, 92, 36, 96} THEN <<92, Head(v)>> ELSE <<Head(v)>>)
            \o BackslashedIn(Tail(v))

DoubleQuotedForm(v) == <<34>> \o BackslashedIn(v) \o <<34>>

\* text is $' ... '
IsAnsicForm(text) ==
    /\ Len(text) >= 3
    /\ text[1] = 36 /\ text[2] = 39 /\ text[Len(text)] = 39

\* v holds one of " \ $ ` or of the bytes that ask for quotes
AsksForQuotes(v) ==
    HasByte(v, {34, 92, 36, 96} \cup {32, 9, 39, 126, 124, 38, 59, 40, 41, 60, 62})

\* v holds a byte below 0x20 that is no tab
HasControlByte(v) == \E i \in 1..Len(v) : v[i] < 32 /\ v[i] # 9

(***************************************************************************)
(* C14.  The quoting svEscape chooses, for every v of 7-bit bytes: v as it *)
(* is iff v holds none of " \ $ `, none of the bytes that ask for quotes   *)
(* (space, tab, ' ~ | & ; ( ) < >) and no byte below 0x20; v in double     *)
(* quotes with a backslash before exactly " \ $ ` iff v holds one of all   *)
(* those bytes and no byte below 0x20 but tab; the form $'...' iff v holds *)
(* a byte below 0x20 that is no tab.                                       *)
(***************************************************************************)
C14_QuotingChoice ==
    (codec.pc = "escaped" /\ \A i \in 1..Len(codec.v) : codec.v[i] < 128) =>
        /\ (codec.enc = codec.v)
                <=> (~AsksForQuotes(codec.v) /\ ~HasByte(codec.v, 1..31))
        /\ (codec.enc = DoubleQuotedForm(codec.v))
                <=> (AsksForQuotes(codec.v) /\ ~HasControlByte(codec.v))
        /\ IsAnsicForm(codec.enc) <=> HasControlByte(codec.v)

\* a tab, a quote and a dollar were escaped: double quotes, and a backslash
\* before the dollar only
C14_Witness ==
    /\ codec.pc = "escaped"
    /\ codec.v = <<9, 39, 36>>
    /\ codec.enc = <<34, 9, 39, 92, 36, 34>>

\* a and b are the same but for the case of ASCII letters
EqualsIgnoringCase(a, b) ==
    /\ Len(a) = Len(b)
    /\ \A i \in 1..Len(a) :
        \/ a[i] = b[i]
        \/ a[i] \in 65..90 /\ b[i] = a[i] + 32
        \/ a[i] \in 97..122 /\ b[i] = a[i] - 32

\* yes, true, t, y, 1
TrueWords == {<<121, 101, 115>>, <<116, 114, 117, 101>>, <<116>>, <<121>>, <<49>>}

\* no, false, f, n, 0
FalseWords == {<<110, 111>>, <<102, 97, 108, 115, 101>>, <<102>>, <<110>>, <<48>>}

\* the boolean the claim gives a decoded value, which may be absent
BooleanAsClaimed(decoded, fallback) ==
    IF ~decoded.nil /\ \E w \in TrueWords : EqualsIgnoringCase(decoded.str, w) THEN 1
    ELSE IF ~decoded.nil /\ \E w \in FalseWords : EqualsIgnoringCase(decoded.str, w) THEN 0
    ELSE fallback

(***************************************************************************)
(* C15.  svGetValueBoolean(key, fallback) returns TRUE when the decoded     *)
(* value of key is, ignoring ASCII case, one of yes/true/t/y/1, FALSE when *)
(* it is one of no/false/f/n/0, and fallback in every other case: no line  *)
(* with the key, a value that is NULL, empty, does not unescape, or any    *)
(* other text.  So svGetValueBoolean(key, fb) right after                  *)
(* svSetValueBoolean(key, b) returns b for both values of fb.              *)
(***************************************************************************)
C15_GetBoolean ==
    /\ last.op = "svGetValueBoolean" =>
            last.num = BooleanAsClaimed(GetAsClaimed(s.lineList, last.key), last.fallback)
    /\ last.op = "svSetValueBoolean" =>
            \A fb \in {0, 1} : svGetValueBoolean(s, last.key, fb) = last.num

\* a key whose value decodes to nO was read with the fallback TRUE
C15_Witness ==
    /\ last.op = "svGetValueBoolean"
    /\ GetAsClaimed(s.lineList, last.key) = Some(<<110, 79>>)
    /\ last.fallback = 1
    /\ last.num = 0

\* the text the last call, a setter, handed to svSetValue
TextSet ==
    CASE last.op = "svSetValueBoolean" ->
            IF last.num # 0 THEN <<121, 101, 115>> ELSE <<110, 111>>
      [] last.op = "svSetValueInt64" -> nm_sprintf_buf(last.num)
      [] OTHER -> last.value.str

\* the last call set last.key to a value, and the document before it held
\* one line with that key, whose value text was the value escaped
SetTheSame ==
    /\ \/ last.op \in {"svSetValue", "svSetValueBoolean", "svSetValueInt64"}
       \/ last.op = "svSetValueString" /\ last.value.str # <<>>
    /\ Cardinality(FindAll(last.before.lineList, last.key)) = 1
    /\ \E i \in FindAll(last.before.lineList, last.key) :
            last.before.lineList[i].line = Some(svEscape(TextSet, charSigned))

\* the line of the document before the last call that has last.key
TheLine == last.before.lineList[MaxOf(FindAll(last.before.lineList, last.key))]

(***************************************************************************)
(* C16.  Setting key to v on a document    that holds one line with the key *)
(* whose value text is v escaped: when the key of that line is not behind  *)
(* whitespace nothing changes, neither the lines nor the modified flag;    *)
(* when it is, the whitespace before the key is dropped and the modified   *)
(* flag is set, and the value text and every other line stay as they were. *)
(***************************************************************************)
C16_SetSameValue ==
    SetTheSame =>
        IF TheLine.key_with_prefix = TheLine.key
        THEN s = last.before
        ELSE /\ s.modified
             /\ Len(s.lineList) = Len(last.before.lineList)
             /\ \A i \in 1..Len(s.lineList) :
                    IF i \in FindAll(last.before.lineList, last.key)
                    THEN s.lineList[i] = [TheLine EXCEPT !.key_with_prefix = TheLine.key]
                    ELSE s.lineList[i] = last.before.lineList[i]

\* the claim as it stands: nothing changes, whitespace before the key or not
C16_AsClaimed == SetTheSame => s = last.before

\* F was set to 10 in a document that was not modified and held F=10
C16_Witness ==
    /\ SetTheSame
    /\ TheLine.key_with_prefix = TheLine.key
    /\ ~last.before.modified
    /\ s = last.before

\* white space, as \s has it
RegexSpace == {32, 9, 10, 11, 12, 13}

\* [A-Za-z_] and [A-Za-z0-9_]
RegexNameStart == (65..90) \cup (97..122) \cup {95}
RegexNameChar == RegexNameStart \cup (48..57)

\* the positions k such that the line is k bytes of white space, then a name
\* and a '=': the line matches ^\s*[A-Za-z_][A-Za-z0-9_]*= iff there is one
NameStarts(l) ==
    {k \in 0..Len(l) :
        /\ \A j \in 1..k : l[j] \in RegexSpace
        /\ k + 1 <= Len(l) /\ l[k + 1] \in RegexNameStart
        /\ \E e \in (k + 2)..Len(l) :
                /\ l[e] = 61
                /\ \A j \in (k + 2)..(e - 1) : l[j] \in RegexNameChar}

\* the position of the first '=' of a line that has one
FirstEq(l) == CHOOSE e \in 1..Len(l) : l[e] = 61 /\ \A j \in 1..(e - 1) : l[j] # 61

\* the bytes of l before the first that is no white space
LeadingSpace(l) ==
    CHOOSE k \in 0..Len(l) :
        /\ \A j \in 1..k : l[j] \in RegexSpace
        /\ k = Len(l) \/ l[k + 1] \notin RegexSpace

(***************************************************************************)
(* C17.  How line_new_parse classifies a physical line: the line becomes   *)
(* an assignment iff it matches ^\s*[A-Za-z_][A-Za-z0-9_]*= ; then         *)
(* key_with_prefix is the text before the first '=' with its leading white *)
(* space, key is that text without the leading white space, and the value  *)
(* is all that follows the first '=', later '=' included.  Every other     *)
(* line (blank, comment, F =1, 1 F=1, a name without '=') becomes a line   *)
(* without key whose text is the whole line as it is.                      *)
(***************************************************************************)
C17_LineClassification ==
    codec.pc = "parsed" =>
        LET l == codec.enc
            line == s.lineList[1]
        IN  IF NameStarts(l) # {}
            THEN /\ line.key_with_prefix = Some(SubSeq(l, 1, FirstEq(l) - 1))
                 /\ line.key = Some(SubSeq(l, LeadingSpace(l) + 1, FirstEq(l) - 1))
                 /\ line.line = Some(SubSeq(l, FirstEq(l) + 1, Len(l)))
            ELSE /\ line.key.nil
                 /\ line.key_with_prefix.nil
                 /\ line.line = Some(l)

\* the line " F==" was parsed: the key F behind a space, and the value "="
C17_Witness ==
    /\ codec.pc = "parsed"
    /\ codec.enc = <<32, 70, 61, 61>>
    /\ s.lineList[1] = [line |-> Some(<<61>>), key |-> Some(<<70>>),
                        key_with_prefix |-> Some(<<32, 70>>)]

\* name is a shell identifier
IsIdentifier(name) ==
    /\ Len(name) > 0
    /\ name[1] \in RegexNameStart
    /\ \A i \in 2..Len(name) : name[i] \in RegexNameChar

\* a line without key: no key_with_prefix either, and a text that is not
\* white space, an identifier and '='
IsRawRecord(line) ==
    /\ line.key.nil
    /\ line.key_with_prefix.nil
    /\ ~line.line.nil
    /\ NameStarts(line.line.str) = {}

\* a line with a key: the key is an identifier, and key_with_prefix without
\* its leading white space
IsAssignmentRecord(line) ==
    /\ ~line.key.nil
    /\ ~line.key_with_prefix.nil
    /\ IsIdentifier(line.key.str)
    /\ line.key.str = SubSeq(line.key_with_prefix.str,
                             LeadingSpace(line.key_with_prefix.str) + 1,
                             Len(line.key_with_prefix.str))

(***************************************************************************)
(* C18.  The lines of a document: in every state reached by svOpenFile or  *)
(* svCreateFile and then any sequence of svSetValue, svSetValueString,     *)
(* svSetValueBoolean, svSetValueInt64 and svUnsetValue with valid keys,    *)
(* every line is either without key (and then without key_with_prefix,     *)
(* with a text, and the text is not white space, an identifier and '=')    *)
(* or has a key that is a shell identifier and is key_with_prefix without  *)
(* its leading white space.                                                *)
(***************************************************************************)
C18_RecordInvariant ==
    \A i \in 1..Len(s.lineList) :
        IsRawRecord(s.lineList[i]) \/ IsAssignmentRecord(s.lineList[i])

\* a setter has acted on a document that holds a line without key, a line
\* whose key is behind white space and a line whose value is NULL
C18_Witness ==
    /\ last.op \in {"svSetValue", "svSetValueString", "svSetValueBoolean",
                    "svSetValueInt64", "svUnsetValue"}
    /\ \E i \in 1..Len(s.lineList) : IsRawRecord(s.lineList[i])
    /\ \E i \in 1..Len(s.lineList) :
            /\ IsAssignmentRecord(s.lineList[i])
            /\ s.lineList[i].key # s.lineList[i].key_with_prefix
    /\ \E i \in 1..Len(s.lineList) :
            IsAssignmentRecord(s.lineList[i]) /\ s.lineList[i].line.nil

\* the position of the first white space or ';' of text
FirstBreak(text) ==
    CHOOSE i \in 1..Len(text) :
        /\ text[i] \in {32, 9, 59}
        /\ \A j \in 1..(i - 1) : text[j] \notin {32, 9, 59}

\* the scan of text meets a white space or a ';' that is neither escaped nor
\* within quotes, behind bytes that stand for themselves
MeetsBreak(text) ==
    /\ HasByte(text, {32, 9, 59})
    /\ \A j \in 1..(FirstBreak(text) - 1) : text[j] \in {97, 35, 36, 96}

\* behind position i, white space and at most n ';' can be skipped so that
\* the rest of text is empty or begins with '#'
RestIsComment(text, i, n) ==
    \E j \in (i + 1)..(Len(text) + 1) :
        /\ \A k \in (i + 1)..(j - 1) : text[k] \in {32, 9, 59}
        /\ Cardinality({k \in (i + 1)..(j - 1) : text[k] = 59}) <= n
        /\ j = Len(text) + 1 \/ text[j] = 35

\* what svUnescape returns for a text that meets a break, when at most n ';'
\* are skipped behind it
TrailingRule(text, n) ==
    IF RestIsComment(text, FirstBreak(text), n)
    THEN Some(SubSeq(text, 1, FirstBreak(text) - 1))
    ELSE NullStr

(***************************************************************************)
(* C19.  The trailing rule of svUnescape: when the scan meets a white      *)
(* space or a ';' that is neither escaped nor within quotes, it returns    *)
(* the value scanned so far iff the rest of the line, after white space    *)
(* and at most one ';' are skipped, is empty or begins with '#', where the *)
(* ';' the scan met counts as that one; in every other case it returns     *)
(* NULL.                                                                   *)
(***************************************************************************)
C19_TrailingRule ==
    (codec.pc = "decoded" /\ MeetsBreak(codec.enc)) =>
        codec.dec = TrailingRule(codec.enc,
                        IF codec.enc[FirstBreak(codec.enc)] = 59 THEN 0 ELSE 1)

\* the claim as it stands: one more ';' is skipped behind the byte the scan
\* met, also when that byte is a ';'
C19_AsClaimed ==
    (codec.pc = "decoded" /\ MeetsBreak(codec.enc)) =>
        codec.dec = TrailingRule(codec.enc, 1)

\* "a ;#" was unescaped: the value is a
C19_Witness ==
    /\ codec.pc = "decoded"
    /\ codec.enc = <<97, 32, 59, 35>>
    /\ codec.dec = Some(<<97>>)

\* text is $'\ d tail ' where tail holds neither quote nor backslash
IsOneEscape(text) ==
    /\ Len(text) >= 5
    /\ SubSeq(text, 1, 3) = <<36, 39, 92>>
    /\ text[Len(text)] = 39
    /\ \A i \in 5..(Len(text) - 1) : text[i] \notin {39, 92}

\* the length of the longest run of bytes of set that text starts with, up
\* to max
RunLength(text, set, max) ==
    CHOOSE n \in 0..max :
        /\ n <= Len(text)
        /\ \A i \in 1..n : text[i] \in set
        /\ n = max \/ n = Len(text) \/ text[n + 1] \notin set

OctalDigits == 48..55
HexDigits == (48..57) \cup (65..70) \cup (97..102)

DigitValue(c) ==
    IF c \in 48..57 THEN c - 48 ELSE IF c \in 65..70 THEN c - 55 ELSE c - 87

\* the number the digits write in base
RECURSIVE NumberIn(_, _)
NumberIn(digits, base) ==
    IF Len(digits) = 0 THEN 0
    ELSE base * NumberIn(SubSeq(digits, 1, Len(digits) - 1), base)
            + DigitValue(digits[Len(digits)])

\* the bytes the escape table gives \ d tail, where \? gives the byte
\* question
EscapeTable(d, tail, question) ==
    CASE d = 97  -> <<7>> \o tail
      [] d = 98  -> <<8>> \o tail
      [] d \in {101, 69} -> <<27>> \o tail
      [] d = 102 -> <<12>> \o tail
      [] d = 110 -> <<10>> \o tail
      [] d = 114 -> <<13>> \o tail
      [] d = 116 -> <<9>> \o tail
      [] d = 118 -> <<11>> \o tail
      [] d = 63  -> <<question>> \o tail
      [] d \in {34, 92, 39} -> <<d>> \o tail
      [] d \in OctalDigits ->
            LET n == RunLength(tail, OctalDigits, 2)
            IN  <<NumberIn(<<d>> \o SubSeq(tail, 1, n), 8) % 256>>
                    \o SubSeq(tail, n + 1, Len(tail))
      [] d = 120 /\ RunLength(tail, HexDigits, 2) > 0 ->
            LET n == RunLength(tail, HexDigits, 2)
            IN  <<NumberIn(SubSeq(tail, 1, n), 16)>> \o SubSeq(tail, n + 1, Len(tail))
      [] OTHER -> <<92, d>> \o tail

\* \u and \U with a hex digit behind them, of which the claim says nothing
IsUnicodeEscape(text) ==
    text[4] \in {117, 85} /\ text[5] \in HexDigits

\* bytes up to the first NUL, which ends the string svUnescape returns
UpToNul(bytes) ==
    IF \E i \in 1..Len(bytes) : bytes[i] = 0
    THEN SubSeq(bytes, 1, (CHOOSE i \in 1..Len(bytes) :
                              bytes[i] = 0 /\ \A j \in 1..(i - 1) : bytes[j] # 0) - 1)
    ELSE bytes

(***************************************************************************)
(* C20.  The escapes of a $'...' run: a backslash before a, b, e or E, f,  *)
(* n, r, t, v gives BEL, BS, ESC, FF, LF, CR, TAB, VT; before ? it gives   *)
(* the question mark itself, as before ", \ and ' it gives that byte; \NNN *)
(* with one to three octal digits gives the byte of that value modulo 256; *)
(* \xHH with one or two hex digits gives that byte; \x, \u and \U without  *)
(* a hex digit behind and every other escape letter give the backslash and *)
(* the letter, without error.  A byte of value 0 among these ends the      *)
(* value returned.                                                         *)
(***************************************************************************)
C20_AnsicEscapes ==
    (codec.pc = "decoded" /\ IsOneEscape(codec.enc) /\ ~IsUnicodeEscape(codec.enc)) =>
        codec.dec = Some(UpToNul(EscapeTable(codec.enc[4],
                                    SubSeq(codec.enc, 5, Len(codec.enc) - 1), 63)))

\* the claim as it stands: \? gives DEL, and every byte the escapes give is
\* part of the value
C20_AsClaimed ==
    (codec.pc = "decoded" /\ IsOneEscape(codec.enc) /\ ~IsUnicodeEscape(codec.enc)) =>
        codec.dec = Some(EscapeTable(codec.enc[4],
                            SubSeq(codec.enc, 5, Len(codec.enc) - 1), 127))

\* $'\47f' was unescaped: a quote, which is octal 47, and f
C20_Witness ==
    /\ codec.pc = "decoded"
    /\ codec.enc = <<36, 39, 92, 52, 55, 102, 39>>
    /\ codec.dec = Some(<<39, 102>>)

\* What the claims give a text that opens with a double quote, read from
\* position i on with out decoded so far: kind is "value" with the bytes in
\* str, "fail", or "other" for a text with quotes, escapes or breaks behind
\* the closing quote; compat tells that a backslash before ' or ~ was met in
\* the run; legacy tells whether that backslash is dropped.
RECURSIVE QuotedRun(_, _, _, _, _)
QuotedRun(text, i, out, compat, legacy) ==
    IF i > Len(text) THEN [kind |-> "fail", str |-> <<>>, compat |-> compat]
    ELSE IF text[i] = 34
         THEN IF \A j \in (i + 1)..Len(text) : text[j] = 97
              THEN [kind |-> "value", str |-> out \o SubSeq(text, i + 1, Len(text)),
                    compat |-> compat]
              ELSE [kind |-> "other", str |-> <<>>, compat |-> compat]
    ELSE IF text[i] \in {96, 36} THEN [kind |-> "fail", str |-> <<>>, compat |-> compat]
    ELSE IF text[i] # 92 THEN QuotedRun(text, i + 1, Append(out, text[i]), compat, legacy)
    ELSE IF i = Len(text) THEN [kind |-> "fail", str |-> <<>>, compat |-> compat]
    ELSE IF text[i + 1] \in {36, 96, 34, 92}
         THEN QuotedRun(text, i + 2, Append(out, text[i + 1]), compat, legacy)
    ELSE IF text[i + 1] \in {39, 126}
         THEN QuotedRun(text, i + 2,
                        IF legacy THEN Append(out, text[i + 1])
                        ELSE out \o <<92, text[i + 1]>>,
                        TRUE, legacy)
    ELSE QuotedRun(text, i + 2, out \o <<92, text[i + 1]>>, compat, legacy)

\* the text opens with a double quote
OpensQuoted(text) == Len(text) >= 1 /\ text[1] = 34

(***************************************************************************)
(* C21.  A double-quoted run in svUnescape: a '`' or '$' without backslash *)
(* makes it return NULL; a backslash before one of $ ` " \ gives that byte *)
(* without the backslash; a backslash before any byte other than those and *)
(* other than ' and ~ gives the backslash and the byte; a run that is not  *)
(* closed before the end of the text, or a backslash as the last byte,     *)
(* makes it return NULL.                                                   *)
(***************************************************************************)
C21_DoubleQuotedRun ==
    (codec.pc = "decoded" /\ OpensQuoted(codec.enc)) =>
        LET r == QuotedRun(codec.enc, 2, <<>>, FALSE, FALSE)
        IN  /\ (r.kind = "fail" /\ ~r.compat) => codec.dec.nil
            /\ (r.kind = "value" /\ ~r.compat) => codec.dec = Some(r.str)

\* "\$\a" was unescaped: the dollar without, the a with its backslash
C21_Witness ==
    /\ codec.pc = "decoded"
    /\ codec.enc = <<34, 92, 36, 92, 97, 34>>
    /\ codec.dec = Some(<<36, 92, 97>>)

\* the six bytes the old svEscape put a backslash before: " \ ' $ ~ `
OldEscaped == {34, 92, 39, 36, 126, 96}

\* body is made of bytes that are none of the six, and of backslashes each
\* followed by one of the six
RECURSIVE IsLegacyBody(_)
IsLegacyBody(body) ==
    IF Len(body) = 0 THEN TRUE
    ELSE IF Head(body) \notin OldEscaped THEN IsLegacyBody(Tail(body))
    ELSE IF Head(body) = 92 /\ Len(body) >= 2 /\ body[2] \in OldEscaped
         THEN IsLegacyBody(SubSeq(body, 3, Len(body)))
    ELSE FALSE

\* the whole text is one double-quoted string as the old svEscape wrote it
IsLegacyText(text) ==
    /\ Len(text) >= 2
    /\ text[1] = 34 /\ text[Len(text)] = 34
    /\ IsLegacyBody(SubSeq(text, 2, Len(text) - 1))

\* v as the old svEscape wrote it
RECURSIVE LegacyBody(_)
LegacyBody(v) ==
    IF Len(v) = 0 THEN <<>>
    ELSE (IF Head(v) \in OldEscaped THEN <<92, Head(v)>> ELSE <<Head(v)>>)
            \o LegacyBody(Tail(v))

LegacyEncoding(v) == <<34>> \o LegacyBody(v) \o <<34>>

(***************************************************************************)
(* C22.  The heuristic for values the old svEscape wrote: in a double-     *)
(* quoted run the backslash before ' or ~ is dropped iff the whole value   *)
(* text is one double-quoted string, with nothing behind the closing       *)
(* quote, in which each of " \ ' $ ~ ` between the quotes has a backslash  *)
(* before it and each backslash has one of them behind it; else the        *)
(* backslash is kept.  So unescaping what the old svEscape wrote for v (v  *)
(* in double quotes, a backslash before each of the six) gives v.          *)
(***************************************************************************)
C22_LegacyHeuristic ==
    (codec.pc = "decoded" /\ OpensQuoted(codec.enc)) =>
        LET r == QuotedRun(codec.enc, 2, <<>>, FALSE, IsLegacyText(codec.enc))
        IN  /\ (r.kind = "value" /\ r.compat) => codec.dec = Some(r.str)
            /\ IsLegacyText(codec.enc) =>
                    ~codec.dec.nil /\ LegacyEncoding(codec.dec.str) = codec.enc

\* "\'\~" was unescaped: both backslashes were dropped
C22_Witness ==
    /\ codec.pc = "decoded"
    /\ codec.enc = <<34, 92, 39, 92, 126, 34>>
    /\ IsLegacyText(codec.enc)
    /\ codec.dec = Some(<<39, 126>>)

\* the calls that set or unset a key
Setters ==
    {"svSetValue", "svSetValueString", "svSetValueInt64", "svSetValueBoolean",
     "svUnsetValue"}

(***************************************************************************)
(* C23.  Keys that are no shell identifier (empty, starting with a digit,  *)
(* holding a byte outside [A-Za-z0-9_]) are refused: svSetValue,           *)
(* svSetValueString, svSetValueBoolean, svSetValueInt64 and svUnsetValue   *)
(* called with such a key leave every line and the modified flag as they   *)
(* were, and no line with such a key comes to stand in the written file.   *)
(***************************************************************************)
C23_InvalidKeyRejected ==
    /\ (last.op \in Setters /\ ~IsIdentifier(last.key)) => s = last.before
    /\ Wrote =>
            \A i \in 1..Len(DiskLines) :
                \/ IsBlankLine(DiskLines[i])
                \/ IsCommentLine(DiskLines[i])
                \/ NameStarts(DiskLines[i]) # {}

\* how often call stands in the system calls of the last operation
Calls(call) == Cardinality({i \in 1..Len(last.sys) : last.sys[i] = call})

(***************************************************************************)
(* C24.  Descriptors are closed exactly once: over svOpenFile or           *)
(* svCreateFile, any setters, any calls of svWriteFile (each succeeding or *)
(* failing at open, ftruncate or dup) and svCloseFile at the end, the only *)
(* descriptor open between the calls is the one the shvarFile holds, which *)
(* svCloseFile closes once; the duplicate svWriteFile makes is closed by   *)
(* that call; and an open that fails, at open or at the read, leaves none  *)
(* open.                                                                   *)
(***************************************************************************)
C24_DescriptorsReleased ==
    /\ [](/\ pc \in {"start", "failed", "closed"} => fds = {}
          /\ pc \in {"open", "written"} => fds = (IF s.fd = -1 THEN {} ELSE {s.fd})
          /\ last.op = "svWriteFile" =>
                Calls("close") = Calls("write") /\ Calls("close") <= Calls("dup")
          /\ (last.op \in {"svOpenFile", "svCreateFile"} /\ Calls("read") = 1) =>
                Calls("close") = (IF fds = {} THEN 1 ELSE 0))
    /\ [][last'.op = "svCloseFile" =>
                /\ Cardinality(fds) = Calls("close")'
                /\ fds' = {}]_vars

\* a document that held a descriptor of its file was closed: one close, and
\* no descriptor is left
C24_Witness ==
    /\ last.op = "svCloseFile"
    /\ last.sys = <<"close">>
    /\ fds = {}
    /\ disk.exists

(***************************************************************************)
(* C25.  svWriteFile leaves the document in memory as it is: succeeding or *)
(* failing, it changes no line (lines with a NULL value and lines whose    *)
(* value does not unescape stay) and does not clear the modified flag; the *)
(* flag, once set, stays set until svCloseFile; so an svWriteFile that     *)
(* follows one that has written writes the file again, with the same       *)
(* bytes.                                                                  *)
(***************************************************************************)
C25_WriteKeepsDocument ==
    [][ /\ last'.op = "svWriteFile" =>
                s'.lineList = s.lineList /\ s'.modified = s.modified
        /\ (s.modified /\ last'.op # "svCloseFile") => s'.modified
        /\ (Wrote /\ last'.op = "svWriteFile" /\ last'.ok) =>
                /\ \E i \in 1..Len(last'.sys) : last'.sys[i] = "write"
                /\ disk' = disk
      ]_vars

\* a modified document with a line whose value is NULL and a line whose
\* value does not unescape has been written onto a file that held the same
\* bytes, and is still modified
C25_Witness ==
    /\ Wrote
    /\ s.modified
    /\ last.file = disk.data
    /\ \E i \in 1..Len(s.lineList) : ~s.lineList[i].key.nil /\ s.lineList[i].line.nil
    /\ \E i \in 1..Len(s.lineList) : IsMalformed(s.lineList[i])

\* a line as svWriteFile leaves it: blank, a comment, or an assignment whose
\* value unescapes
IsSettled(l) ==
    \/ IsBlankLine(l)
    \/ IsCommentLine(l)
    \/ NameStarts(l) # {} /\ ~svUnescape(SubSeq(l, FirstEq(l) + 1, Len(l))).nil

\* a file of such lines, each ended by a newline
IsSettledFile(data) ==
    /\ data = <<>> \/ data[Len(data)] = 10
    /\ \A i \in 1..Len(CutLines(data)) : IsSettled(CutLines(data)[i])

(***************************************************************************)
(* C26.  What svWriteFile has written stays as it is: its lines are blank, *)
(* comments (those it marked "#NM: " among them) or assignments whose      *)
(* value unescapes, and a document opened from a file of such lines and    *)
(* written again with the modified flag set gives the same bytes, with no  *)
(* second mark on a line that begins with "#NM: "; so the file that was    *)
(* written, opened and written again is the same, whatever the file was at *)
(* first.                                                                  *)
(***************************************************************************)
C26_NeutralizationFixedPoint ==
    Wrote =>
        /\ IsSettledFile(disk.data)
        /\ (IsSettledFile(last.file) /\ s.lineList = SplitLines(last.file)) =>
                disk.data = last.file

\* a file with a line that was marked "#NM: " by an earlier svWriteFile has
\* been opened and written again, and is as it was
C26_Witness ==
    /\ Wrote
    /\ s.lineList = SplitLines(last.file)
    /\ last.file = disk.data
    /\ \E i \in 1..Len(DiskLines) :
            /\ Len(DiskLines[i]) > Len(NMTag)
            /\ SubSeq(DiskLines[i], 1, Len(NMTag)) = NMTag

\* the document svOpenFile gives for the file as it is
Reopened == svOpenFileInternal(disk, fds, FALSE, FALSE, TRUE, TRUE).s

(***************************************************************************)
(* C27.  Writing keeps what the document means: when svWriteFile has       *)
(* written a document and the file is opened again, svGetValueString(key)  *)
(* on the new document is svGetValueString(key) on the document that was   *)
(* written, for every key that is a name; a key whose last line has a NULL *)
(* value or one that does not unescape gives NULL on both.                 *)
(***************************************************************************)
C27_WritePreservesMeaning ==
    (Wrote /\ last.ok) =>
        \A key \in Keys :
            /\ svGetValueString(Reopened, key) = svGetValueString(s, key)
            /\ (\E i \in FindAll(s.lineList, key) :
                    /\ \A j \in FindAll(s.lineList, key) : j <= i
                    /\ s.lineList[i].line.nil \/ IsMalformed(s.lineList[i]))
                => svGetValueString(Reopened, key) = NullStr

\* a document was written in which F was set, the last line of f has a value
\* that does not unescape and an earlier line of f has one that does
C27_Witness ==
    /\ Wrote /\ last.ok
    /\ ~svGetValueString(s, <<70>>).nil
    /\ svGetValueString(Reopened, <<70>>) = svGetValueString(s, <<70>>)
    /\ \E i, j \in FindAll(s.lineList, <<102>>) :
            /\ i < j
            /\ ~svUnescape(s.lineList[i].line.str).nil
            /\ IsMalformed(s.lineList[j])
    /\ svGetValueString(Reopened, <<102>>) = NullStr

(***************************************************************************)
(* C28.  The error contract of the DCB helper sequence: whichever helpers  *)
(* fail, _dcb_setup and nm_dcb_setup return FALSE with the caller's error  *)
(* set, or TRUE with the caller's error left unset; when only the          *)
(* disable command `pg e:0' fails the result is TRUE and no error is left  *)
(* set for the FCoE step.                                                  *)
(***************************************************************************)
DcbReturned == dcb.pc = "done"

C28_ErrorContract ==
    DcbReturned =>
        /\ dcb.ret = ~dcb.error.set
        /\ ~dcb.preset

\* Only the disable command fails: TRUE is returned and the error is set.
C28_Divergence ==
    /\ DcbReturned
    /\ dcb.fails = {"pg e:0"}
    /\ dcb.ret = TRUE
    /\ dcb.error = [set |-> TRUE, message |-> "pg e:0"]

=============================================================================
